---------------------------- MODULE Spec2Model ----------------------------
(***************************************************************************)
(* Model of the article verification script (scripts/verify.mjs, held in   *)
(* src/unnamed/part_005): the text normalizers, the per-item matchers and  *)
(* the report aggregator verifyMarkdownContent.                            *)
(*                                                                         *)
(* A JavaScript string is modelled as a sequence of characters.  Each      *)
(* character is a one-element TLA+ string for ASCII ("a", " ", "$") and a  *)
(* symbolic name for a non-ASCII code point ("NBSP" is U+00A0, "ZWSP" is   *)
(* U+200B, "TIMES" is U+00D7, ...).                                        *)
(***************************************************************************)
EXTENDS Integers, Sequences, FiniteSets, TLC

VARIABLES
    \* ---- verifyMarkdownContent(article, webContent, markdownText) ----
    article,                   \* parameter: entry of ARTICLES
    webContent,                \* parameter: result of extractWebPageContent
    markdownText,              \* parameter: contents of the markdown file
    normalizedMarkdown,        \* const normalizedMarkdown (line 479)
    normalizedMarkdownForCode, \* const normalizedMarkdownForCode (line 547)
    missing,                   \* const missing (lines 480-488)
    totalChecks,               \* let totalChecks (line 490)
    passedChecks,              \* let passedChecks (line 491)
    pc,                        \* position inside verifyMarkdownContent
    report,                    \* the returned object (lines 627-634)
    \* ---- repeated application of a normalizer to one string ----
    nInput,                    \* the string handed to the normalizer
    nOutput,                   \* results of the successive applications
    nCodeOutput,               \* results of normalizeCode on the string
    \* ---- the verify command line (main) ----
    cliOptions,                \* const options = parseArgs()
    cliOutcomes,               \* what verifyArticle does for each article
    cliArticles,               \* let articles
    cliResults,                \* const results
    pagesOpened,               \* articles handed to extractWebPageContent
    allPassed,                 \* let allPassed
    cliPc,                     \* position inside main
    exitCode,                  \* the argument of process.exit
    \* ---- processArticle and downloadArticle on one article ----
    script,                    \* which of the two functions runs
    dryRun,                    \* options.dryRun
    fsInitial,                 \* the files and directories before the run
    fs,                        \* the files and directories now
    sPc,                       \* position inside the function
    externalImages,            \* const externalImages
    imageIndex,                \* let i of the download loop
    replacements,              \* const replacements
    downloadedCount,           \* let downloadedCount
    sMarkdownText,             \* let markdownText
    sResult,                   \* the object returned
    \* ---- the math conversion verifier (verifyMathConversion) ----
    mathFile,                  \* the file at MARKDOWN_PATH: <<>> or <<text>>
    mathMarkdown,              \* const markdown
    mathCodeBlocks,            \* const codeBlocks
    mathFormulas,              \* const formulas
    allIssues,                 \* const allIssues
    checksRun,                 \* the checks that have returned, in order
    mathPc,                    \* position inside the script
    mathExitCode,              \* the exit code of the process
    \* ---- the combined test runner (runAllTests) ----
    runnerPc,                  \* position inside runAllTests
    childEvents,               \* spawn calls and child events, in order
    playwrightResult,          \* const playwrightResult: <<>> or <<bool>>
    puppeteerResult,           \* const puppeteerResult: <<>> or <<bool>>
    runnerExitCode,            \* the exit code of the runner
    \* ---- one call of downloadFile ----
    retries,                   \* the parameter retries
    now,                       \* the clock, in milliseconds
    requests,                  \* the calls of protocol.get, in order
    timers,                    \* the callbacks setTimeout holds
    promise                    \* the promise downloadFile returned

vars == <<article, webContent, markdownText, normalizedMarkdown,
          normalizedMarkdownForCode, missing, totalChecks, passedChecks,
          pc, report, nInput, nOutput, nCodeOutput,
          cliOptions, cliOutcomes, cliArticles, cliResults, pagesOpened,
          allPassed, cliPc, exitCode,
          script, dryRun, fsInitial, fs, sPc, externalImages, imageIndex,
          replacements, downloadedCount, sMarkdownText, sResult,
          mathFile, mathMarkdown, mathCodeBlocks, mathFormulas, allIssues,
          checksRun, mathPc, mathExitCode,
          runnerPc, childEvents, playwrightResult, puppeteerResult,
          runnerExitCode, retries, now, requests, timers, promise>>

verifyVars == <<article, webContent, markdownText, normalizedMarkdown,
                normalizedMarkdownForCode, missing, totalChecks,
                passedChecks, pc, report>>

normVars == <<nInput, nOutput, nCodeOutput>>

cliVars == <<cliOptions, cliOutcomes, cliArticles, cliResults, pagesOpened,
             allPassed, cliPc, exitCode>>

scriptVars == <<script, dryRun, fsInitial, fs, sPc, externalImages,
                imageIndex, replacements, downloadedCount, sMarkdownText,
                sResult>>

mathVars == <<mathFile, mathMarkdown, mathCodeBlocks, mathFormulas,
              allIssues, checksRun, mathPc, mathExitCode>>

runnerVars == <<runnerPc, childEvents, playwrightResult, puppeteerResult,
                runnerExitCode>>

downloadVars == <<retries, now, requests, timers, promise>>

\* the variables the actions of one part of the model leave alone
outsideVerify ==
    <<normVars, cliVars, scriptVars, mathVars, runnerVars, downloadVars>>
outsideNorm ==
    <<verifyVars, cliVars, scriptVars, mathVars, runnerVars, downloadVars>>
outsideCli ==
    <<verifyVars, normVars, scriptVars, mathVars, runnerVars, downloadVars>>
outsideScript ==
    <<verifyVars, normVars, cliVars, mathVars, runnerVars, downloadVars>>
outsideMath ==
    <<verifyVars, normVars, cliVars, scriptVars, runnerVars, downloadVars>>
outsideRunner ==
    <<verifyVars, normVars, cliVars, scriptVars, mathVars, downloadVars>>
outsideDownload ==
    <<verifyVars, normVars, cliVars, scriptVars, mathVars, runnerVars>>

NotExited == 0 - 1

\* the command line is not running
CliIdle ==
    /\ cliOptions = [all |-> FALSE, version |-> "none"]
    /\ cliOutcomes = <<>>
    /\ cliArticles = <<>>
    /\ cliResults = <<>>
    /\ pagesOpened = <<>>
    /\ allPassed = TRUE
    /\ cliPc = "idle"
    /\ exitCode = NotExited

\* a directory without the article
NoFiles ==
    [archiveDir |-> FALSE, markdown |-> <<>>, imagesDir |-> FALSE,
     images |-> {}, metadata |-> <<>>]

\* neither function is running
ScriptIdle ==
    /\ script = "none"
    /\ dryRun = FALSE
    /\ fsInitial = NoFiles
    /\ fs = NoFiles
    /\ sPc = "idle"
    /\ externalImages = <<>>
    /\ imageIndex = 0
    /\ replacements = <<>>
    /\ downloadedCount = 0
    /\ sMarkdownText = <<>>
    /\ sResult = <<>>

\* the math conversion verifier is not running
MathIdle ==
    /\ mathFile = <<>>
    /\ mathMarkdown = <<>>
    /\ mathCodeBlocks = <<>>
    /\ mathFormulas = <<>>
    /\ allIssues = <<>>
    /\ checksRun = <<>>
    /\ mathPc = "idle"
    /\ mathExitCode = NotExited

\* the combined test runner is not running
RunnerIdle ==
    /\ runnerPc = "idle"
    /\ childEvents = <<>>
    /\ playwrightResult = <<>>
    /\ puppeteerResult = <<>>
    /\ runnerExitCode = NotExited

\* downloadFile has not been called
DownloadIdle ==
    /\ retries = 0
    /\ now = 0
    /\ requests = <<>>
    /\ timers = {}
    /\ promise = [state |-> "idle", error |-> <<>>, after |-> 0]

(***************************************************************************)
(* Characters                                                              *)
(***************************************************************************)

\* What the regular expression class \s and String.prototype.trim treat as
\* white space: TAB LF VT FF CR SP, U+00A0, U+1680, U+2000..U+200A, U+2028,
\* U+2029, U+202F, U+205F, U+3000, U+FEFF.
\* a variant of JsWhiteSpace with the ASCII whitespace only
JsWhiteSpaceAscii == {" ", "\t", "\n", "\r", "\f", "VT"}

JsWhiteSpace ==
    {" ", "\t", "\n", "\r", "\f", "VT", "NBSP", "OGHAM",
     "ENQUAD", "EMQUAD", "ENSP", "EMSP", "EMSP3", "EMSP4", "EMSP6",
     "FIGSP", "PUNCSP", "THINSP", "HAIRSP",
     "LSEP", "PSEP", "NNBSP", "MMSP", "IDSP", "BOM"}

\* The class [\u2000-\u200F\u2028-\u202F]: the spaces U+2000..U+200A, the
\* zero-width and directional marks U+200B..U+200F, the separators U+2028
\* and U+2029, the embedding controls U+202A..U+202E and U+202F.
UnicodeSpaceRange ==
    {"ENQUAD", "EMQUAD", "ENSP", "EMSP", "EMSP3", "EMSP4", "EMSP6",
     "FIGSP", "PUNCSP", "THINSP", "HAIRSP",
     "ZWSP", "ZWNJ", "ZWJ", "LRM", "RLM",
     "LSEP", "PSEP", "LRE", "RLE", "PDF", "LRO", "RLO", "NNBSP"}

UpperCase ==
    <<"A", "B", "C", "D", "E", "F", "G", "H", "I", "J", "K", "L", "M",
      "N", "O", "P", "Q", "R", "S", "T", "U", "V", "W", "X", "Y", "Z",
      "CYR_ER_UP", "CYR_I_UP", "CYR_ES_UP", "CYR_U_UP", "CYR_EN_UP",
      "CYR_O_UP", "CYR_KA_UP">>

LowerCase ==
    <<"a", "b", "c", "d", "e", "f", "g", "h", "i", "j", "k", "l", "m",
      "n", "o", "p", "q", "r", "s", "t", "u", "v", "w", "x", "y", "z",
      "CYR_ER", "CYR_I", "CYR_ES", "CYR_U", "CYR_EN", "CYR_O", "CYR_KA">>

Digits == {"0", "1", "2", "3", "4", "5", "6", "7", "8", "9"}

\* toLowerCase of one character
LowerChar(c) ==
    IF \E i \in 1..Len(UpperCase) : UpperCase[i] = c
    THEN LowerCase[CHOOSE i \in 1..Len(UpperCase) : UpperCase[i] = c]
    ELSE c

(***************************************************************************)
(* String primitives                                                       *)
(***************************************************************************)

\* s.substring(0, n)
Prefix(s, n) == SubSeq(s, 1, IF n < Len(s) THEN n ELSE Len(s))

\* pat occurs in s at (1-based) position i
MatchAt(s, i, pat) ==
    /\ i + Len(pat) - 1 <= Len(s)
    /\ \A j \in 1..Len(pat) : s[i + j - 1] = pat[j]

\* pat occurs in s at position i when case is ignored (the i flag)
MatchAtCI(s, i, pat) ==
    /\ i + Len(pat) - 1 <= Len(s)
    /\ \A j \in 1..Len(pat) : LowerChar(s[i + j - 1]) = LowerChar(pat[j])

\* s.includes(pat)
Includes(s, pat) ==
    \E i \in 1..(Len(s) - Len(pat) + 1) : MatchAt(s, i, pat)

\* s.trim()
Trim(s) ==
    LET keep == {i \in 1..Len(s) : s[i] \notin JsWhiteSpace}
    IN  IF keep = {} THEN <<>>
        ELSE SubSeq(s, CHOOSE i \in keep : \A j \in keep : i <= j,
                       CHOOSE i \in keep : \A j \in keep : i >= j)

\* s.toLowerCase()
ToLowerCase(s) == [i \in 1..Len(s) |-> LowerChar(s[i])]

\* the pieces joined in order; the recursion halves the range
RECURSIVE JoinRange(_, _, _)
JoinRange(pieces, lo, hi) ==
    IF lo > hi THEN <<>>
    ELSE IF lo = hi THEN pieces[lo]
    ELSE LET mid == (lo + hi) \div 2
         IN  JoinRange(pieces, lo, mid) \o JoinRange(pieces, mid + 1, hi)

Join(pieces) == JoinRange(pieces, 1, Len(pieces))

\* Position i starts one of the matches a global replace takes: the pattern
\* occurs at i and i lies in no match taken further left (the matches are
\* taken left to right and do not overlap).  ci: the i flag.
RECURSIVE TakenAt(_, _, _, _)
TakenAt(s, i, pat, ci) ==
    /\ IF ci THEN MatchAtCI(s, i, pat) ELSE MatchAt(s, i, pat)
    /\ \A j \in (i - Len(pat) + 1)..(i - 1) :
           j < 1 \/ ~TakenAt(s, j, pat, ci)

ReplaceTaken(s, pat, rep, ci) ==
    Join([i \in 1..Len(s) |->
            IF TakenAt(s, i, pat, ci) THEN rep
            ELSE IF \E j \in (i - Len(pat) + 1)..(i - 1) :
                        j >= 1 /\ TakenAt(s, j, pat, ci)
                 THEN <<>>
                 ELSE <<s[i]>>])

\* s.replace(/pat/g, rep) for a literal, non-empty pattern
ReplaceAll(s, pat, rep) ==
    IF Includes(s, pat) THEN ReplaceTaken(s, pat, rep, FALSE) ELSE s

\* s.replace(/pat/gi, rep) for a literal, non-empty pattern
ReplaceAllCI(s, pat, rep) ==
    IF \E i \in 1..(Len(s) - Len(pat) + 1) : MatchAtCI(s, i, pat)
    THEN ReplaceTaken(s, pat, rep, TRUE) ELSE s

\* s.replace(/[class]/g, rep): every character of the class, one by one
ReplaceClass(s, class, rep) ==
    IF \E i \in 1..Len(s) : s[i] \in class
    THEN Join([i \in 1..Len(s) |->
                 IF s[i] \in class THEN rep ELSE <<s[i]>>])
    ELSE s

\* s.replace(/\s+/g, ' '): every maximal run of white space becomes one space
CollapseWhiteSpace(s) ==
    IF \E i \in 1..Len(s) : s[i] \in JsWhiteSpace
    THEN Join([i \in 1..Len(s) |->
                 IF s[i] \notin JsWhiteSpace THEN <<s[i]>>
                 ELSE IF i > 1 /\ s[i - 1] \in JsWhiteSpace THEN <<>>
                 ELSE <<" ">>])
    ELSE s

(***************************************************************************)
(* normalizeText and normalizeCode                                         *)
(***************************************************************************)

Bs == "\\"

NormStep1(s)  == Trim(s)
NormStep2(s)  == CollapseWhiteSpace(s)
NormStep3(s)  == ReplaceClass(s, UnicodeSpaceRange, <<" ">>)
NormStep4(s)  == ReplaceClass(s, {"NBSP"}, <<" ">>)
\* lines 319-320: both character classes hold the ASCII quote itself
NormStep5(s)  == ReplaceClass(s, {"'"}, <<"'">>)
NormStep6(s)  == ReplaceClass(s, {"\""}, <<"\"">>)
NormStep7(s)  == ReplaceClass(s, {"TIMES"}, <<"x">>)
NormStep8(s)  == ReplaceAll(s, <<Bs, "t", "i", "m", "e", "s">>, <<"x">>)
NormStep9(s)  == ReplaceClass(s, {"RARROW", "MAPSTO"}, <<"-", ">">>)
\* a variant of NormStep10 that writes the arrow glyph for the LaTeX arrow
NormStep10AsGlyph(s) == ReplaceAll(s, <<Bs, "t", "o">>, <<"RARROW">>)

NormStep10(s) == ReplaceAll(s, <<Bs, "t", "o">>, <<"-", ">">>)
NormStep11(s) == ReplaceClass(s, {"MINUS"}, <<"-">>)
NormStep12(s) == ReplaceAll(s, <<"$", "$">>, <<>>)
NormStep13(s) == ReplaceAll(s, <<"$">>, <<>>)
NormStep14(s) ==
    ReplaceAll(s, <<Bs, "s", "u", "b", "s", "e", "t", "e", "q">>,
               <<"SUBSETEQ">>)
NormStep15(s) ==
    ReplaceAllCI(s, <<Bs, "m", "a", "t", "h", "b", "b", "{", "n", "}",
                      "_", "0">>, <<"NATURALS", "SUB0">>)
NormStep16(s) == ReplaceAll(s, <<Bs, "i", "n">>, <<"ELEMENT">>)
NormStep17(s) ==
    ReplaceAll(s, <<Bs, "e", "m", "p", "t", "y", "s", "e", "t">>,
               <<"EMPTYSET">>)
NormStep18(s) == ReplaceAll(s, <<"^", "2">>, <<"SUP2">>)
NormStep19(s) == ReplaceAll(s, <<"^", "n">>, <<"SUPN">>)

normalizeText(text) ==
    ToLowerCase(
     NormStep19(NormStep18(NormStep17(NormStep16(NormStep15(NormStep14(
     NormStep13(NormStep12(NormStep11(NormStep10(NormStep9(NormStep8(
     NormStep7(NormStep6(NormStep5(NormStep4(NormStep3(NormStep2(
     NormStep1(text))))))))))))))))))))

normalizeCode(text) ==
    ToLowerCase(
     ReplaceAll(
      ReplaceAll(
       ReplaceAll(
        ReplaceClass(
         ReplaceClass(
          ReplaceClass(
           CollapseWhiteSpace(Trim(text)),
           UnicodeSpaceRange, <<" ">>),
          {"NBSP"}, <<" ">>),
         {"TIMES"}, <<"x">>),
        <<Bs, "t", "i", "m", "e", "s">>, <<"x">>),
       <<"$", "$">>, <<>>),
      <<"$">>, <<>>))

(***************************************************************************)
(* Matching of one reference item against the markdown                     *)
(***************************************************************************)

ParagraphSampleSize == 5
ListItemSampleSize == 10
MinWordLength == 2
MinLineLength == 3
MatchThresholdPercent == 60
ParagraphMinSubstringLength == 20
ParagraphSubstringLength == 50
ListItemMinSubstringLength == 15
ListItemSubstringLength == 40
PreviewLength == 100
PassThresholdPercent == 85

\* A quotient of two small naturals, kept exact.  The script computes it in
\* double precision and compares it with the literals 0.6 and 0.85; for the
\* denominators that occur here the comparison of the doubles agrees with
\* the comparison of the exact quotients (k/n is rounded to the double
\* nearest to it, which for 3/5 and 17/20 is the literal itself).
Quotient(n, d) == [num |-> n, den |-> d]

\* rate >= percent / 100
AtLeastPercent(rate, percent) == rate.num * 100 >= percent * rate.den

\* s.split(sep) for a one-character separator: the pieces between
\* consecutive separators, empty pieces included
Split(s, sep) ==
    LET at == {i \in 1..Len(s) : s[i] = sep}
        \* the k-th separator; 0 before the first, Len(s) + 1 after the last
        cut(k) == IF k = 0 THEN 0
                  ELSE IF k > Cardinality(at) THEN Len(s) + 1
                  ELSE CHOOSE i \in at :
                           Cardinality({j \in at : j < i}) = k - 1
    IN  [k \in 1..(Cardinality(at) + 1) |->
            SubSeq(s, cut(k - 1) + 1, cut(k) - 1)]

\* normalized.split(' ').filter(w => w.length > 2)
QualifyingWords(normalized) ==
    LET long(w) == Len(w) > MinWordLength
    IN  SelectSeq(Split(normalized, " "), long)

\* words.length > 0 ? matchingWords.length / words.length : 0
WordMatchRate(normalized, markdown) ==
    LET words == QualifyingWords(normalized)
        found(w) == Includes(markdown, w)
        matchingWords == SelectSeq(words, found)
    IN  IF Len(words) > 0
        THEN Quotient(Len(matchingWords), Len(words))
        ELSE Quotient(0, 1)

\* normalized.length > minLength &&
\*   markdown.includes(normalized.substring(0, Math.min(length, normalized.length)))
SubstringMatch(normalized, markdown, minLength, length) ==
    /\ Len(normalized) > minLength
    /\ Includes(markdown, Prefix(normalized, length))

\* the test of one sampled paragraph (lines 529-537)
ParagraphMatches(paragraph, markdown) ==
    LET normalized == normalizeText(paragraph)
    IN  \/ AtLeastPercent(WordMatchRate(normalized, markdown),
                          MatchThresholdPercent)
        \/ SubstringMatch(normalized, markdown,
                          ParagraphMinSubstringLength,
                          ParagraphSubstringLength)

\* the test of one sampled list item (lines 577-585)
ListItemMatches(item, markdown) ==
    LET normalized == normalizeText(item)
    IN  \/ AtLeastPercent(WordMatchRate(normalized, markdown),
                          MatchThresholdPercent)
        \/ SubstringMatch(normalized, markdown,
                          ListItemMinSubstringLength,
                          ListItemSubstringLength)

\* the characters of the class in /^[{}\[\](),;]+$/
BracketChars == {"{", "}", "[", "]", "(", ")", ",", ";"}

\* code.split('\n').map(l => l.trim())
\*     .filter(l => l.length > 3 && !/^[{}\[\](),;]+$/.test(l))
SignificantLines(code) ==
    LET raw == Split(code, "\n")
        trimmed == [i \in 1..Len(raw) |-> Trim(raw[i])]
        significant(l) ==
            /\ Len(l) > MinLineLength
            /\ ~(\A i \in 1..Len(l) : l[i] \in BracketChars)
    IN  SelectSeq(trimmed, significant)

\* lines.length > 0 ? matchingLines.length / lines.length : 1
LineMatchRate(code, markdownForCode) ==
    LET lines == SignificantLines(code)
        found(l) == Includes(markdownForCode, normalizeCode(l))
        matchingLines == SelectSeq(lines, found)
    IN  IF Len(lines) > 0
        THEN Quotient(Len(matchingLines), Len(lines))
        ELSE Quotient(1, 1)

\* a variant of CodeBlockMatches that wants more than 60% of the lines
CodeBlockMatchesAbove(code, markdownForCode) ==
    \/ LET rate == LineMatchRate(code, markdownForCode)
       IN  rate.num * 100 > MatchThresholdPercent * rate.den
    \/ Includes(markdownForCode, normalizeCode(code))

\* the test of one code block (lines 550-563)
CodeBlockMatches(code, markdownForCode) ==
    \/ AtLeastPercent(LineMatchRate(code, markdownForCode),
                      MatchThresholdPercent)
    \/ Includes(markdownForCode, normalizeCode(code))

(***************************************************************************)
(* The two image patterns                                                  *)
(***************************************************************************)

\* first position from p on that holds no character of the class (greedy
\* class*), Len(s) + 1 when the class runs to the end
SkipClass(s, p, class) ==
    CHOOSE q \in p..(Len(s) + 1) :
        /\ q = Len(s) + 1 \/ s[q] \notin class
        /\ \A r \in p..(q - 1) : s[r] \in class

\* The group (?:Figure|Ris\.?|Risunok) at p, the last two alternatives being
\* the Cyrillic words, written here CYR_ER_UP CYR_I CYR_ES (CYR_U CYR_EN
\* CYR_O CYR_KA): the positions right after each way the group can match
FigureWordEnds(s, p) ==
    LET ris == <<"CYR_ER_UP", "CYR_I", "CYR_ES">>
    IN  {q \in p..(Len(s) + 1) :
            \/ q = p + 6 /\ MatchAtCI(s, p, <<"F", "i", "g", "u", "r", "e">>)
            \/ q = p + 3 /\ MatchAtCI(s, p, ris)
            \/ q = p + 4 /\ MatchAtCI(s, p, ris \o <<".">>)
            \/ q = p + 7 /\ MatchAtCI(s, p, ris \o <<"CYR_U", "CYR_EN",
                                                    "CYR_O", "CYR_KA">>)}

\* \s*\d+\]\(images\/figure-\d+\.(png|jpg)\) at p: the position right after
\* the match, 0 when there is none
FigureTailEnd(s, p) ==
    LET a == SkipClass(s, p, JsWhiteSpace)
        b == SkipClass(s, a, Digits)
        link == <<"]", "(", "i", "m", "a", "g", "e", "s", "/",
                  "f", "i", "g", "u", "r", "e", "-">>
        c == b + Len(link)
        d == SkipClass(s, c, Digits)
    IN  IF b = a \/ ~MatchAtCI(s, b, link) THEN 0
        ELSE IF d = c THEN 0
        ELSE IF \/ MatchAtCI(s, d, <<".", "p", "n", "g", ")">>)
                \/ MatchAtCI(s, d, <<".", "j", "p", "g", ")">>)
             THEN d + 5
             ELSE 0

\* figurePattern at i: the position right after the match, 0 when there is
\* none.  At most one way through the group leads to a match.
FigureMatchEnd(s, i) ==
    IF ~MatchAt(s, i, <<"!", "[">>) THEN 0
    ELSE LET ends == {FigureTailEnd(s, q) : q \in FigureWordEnds(s, i + 2)}
                     \ {0}
         IN  IF ends = {} THEN 0 ELSE CHOOSE e \in ends : TRUE

\* markdownText.match(figurePattern) || []: the matched substrings in text
\* order.  A match holds no "!", so no match starts inside another and the
\* left-to-right scan finds the match at every position that has one.
figureMatches(text) ==
    LET starts == {i \in 1..Len(text) : FigureMatchEnd(text, i) > 0}
        nth(k) == CHOOSE i \in starts :
                      Cardinality({j \in starts : j < i}) = k - 1
    IN  [k \in 1..Cardinality(starts) |->
            SubSeq(text, nth(k), FigureMatchEnd(text, nth(k)) - 1)]

\* what "." does not match
LineTerminators == {"\n", "\r", "LSEP", "PSEP"}

\* (markdownText.match(/!\[.*?\]\(https?:\/\/.*?\)/g) || []).length > 0
HasExternalImage(text) ==
    LET http == <<"]", "(", "h", "t", "t", "p", ":", "/", "/">>
        https == <<"]", "(", "h", "t", "t", "p", "s", ":", "/", "/">>
        sameLine(a, b) == \A r \in a..b : text[r] \notin LineTerminators
    IN  \E i \in 1..Len(text) :
          /\ MatchAt(text, i, <<"!", "[">>)
          /\ \E j \in (i + 2)..Len(text) :
               /\ sameLine(i + 2, j - 1)
               /\ \E u \in {j + Len(http), j + Len(https)} :
                    /\ \/ u = j + Len(http) /\ MatchAt(text, j, http)
                       \/ u = j + Len(https) /\ MatchAt(text, j, https)
                    /\ \E k \in u..Len(text) :
                         text[k] = ")" /\ sameLine(u, k - 1)

(***************************************************************************)
(* verifyMarkdownContent: the local state and the sections of the function *)
(***************************************************************************)

\* missing, totalChecks and passedChecks as declared in lines 480-491
NewChecks ==
    [missing |-> [title |-> FALSE, headings |-> <<>>, paragraphs |-> <<>>,
                  codeBlocks |-> <<>>, formulas |-> <<>>, listItems |-> <<>>,
                  images |-> 0],
     totalChecks |-> 0,
     passedChecks |-> 0]

\* totalChecks++; passedChecks++
Passed(acc) ==
    [acc EXCEPT !.totalChecks = @ + 1, !.passedChecks = @ + 1]

\* totalChecks++; missing[category].push(entry)
Failed(acc, category, entry) ==
    [acc EXCEPT !.totalChecks = @ + 1,
                !.missing[category] = Append(@, entry)]

\* item.substring(0, 100) + '...'
Preview(item) == Prefix(item, PreviewLength) \o <<".", ".", ".">>

\* array.slice(0, n)
SliceFirst(array, n) ==
    SubSeq(array, 1, IF n < Len(array) THEN n ELSE Len(array))

\* array.slice(-n)
SliceLast(array, n) ==
    SubSeq(array, IF Len(array) > n THEN Len(array) - n + 1 ELSE 1,
           Len(array))

\* a property of the reference is there (not undefined)
Has(content, field) == field \in DOMAIN content

\* a variant of CheckTitleSection that looks for the title as it was
\* extracted, not normalized
CheckTitleSectionRaw(acc, content, markdown) ==
    IF Has(content, "title") /\ content.title # <<>>
    THEN IF Includes(markdown, content.title)
         THEN Passed(acc)
         ELSE [acc EXCEPT !.totalChecks = @ + 1, !.missing.title = TRUE]
    ELSE acc

\* lines 495-505
CheckTitleSection(acc, content, markdown) ==
    IF Has(content, "title") /\ content.title # <<>>
    THEN IF Includes(markdown, normalizeText(content.title))
         THEN Passed(acc)
         ELSE [acc EXCEPT !.totalChecks = @ + 1, !.missing.title = TRUE]
    ELSE acc

\* lines 509-518
RECURSIVE CheckHeadingsFrom(_, _, _, _)
CheckHeadingsFrom(acc, headings, i, markdown) ==
    IF i > Len(headings) THEN acc
    ELSE CheckHeadingsFrom(
             IF Includes(markdown, normalizeText(headings[i].text))
             THEN Passed(acc)
             ELSE Failed(acc, "headings", headings[i].text),
             headings, i + 1, markdown)

\* a variant of paragraphsToCheck that takes the first ten paragraphs
paragraphsToCheckFirst(paragraphs) ==
    SliceFirst(paragraphs, 2 * ParagraphSampleSize)

\* lines 522-525
paragraphsToCheck(paragraphs) ==
    SliceFirst(paragraphs, ParagraphSampleSize)
        \o SliceLast(paragraphs, ParagraphSampleSize)

\* lines 527-543
RECURSIVE CheckParagraphsFrom(_, _, _, _)
CheckParagraphsFrom(acc, sample, i, markdown) ==
    IF i > Len(sample) THEN acc
    ELSE CheckParagraphsFrom(
             IF ParagraphMatches(sample[i], markdown)
             THEN Passed(acc)
             ELSE Failed(acc, "paragraphs", Preview(sample[i])),
             sample, i + 1, markdown)

\* lines 548-569
RECURSIVE CheckCodeBlocksFrom(_, _, _, _)
CheckCodeBlocksFrom(acc, codeBlocks, i, markdownForCode) ==
    IF i > Len(codeBlocks) THEN acc
    ELSE CheckCodeBlocksFrom(
             IF CodeBlockMatches(codeBlocks[i], markdownForCode)
             THEN Passed(acc)
             ELSE Failed(acc, "codeBlocks", Preview(codeBlocks[i])),
             codeBlocks, i + 1, markdownForCode)

\* a variant of listItemsToCheck that takes every list item
listItemsToCheckAll(listItems) == listItems

\* line 573
listItemsToCheck(listItems) == SliceFirst(listItems, ListItemSampleSize)

\* lines 575-591
RECURSIVE CheckListItemsFrom(_, _, _, _)
CheckListItemsFrom(acc, sample, i, markdown) ==
    IF i > Len(sample) THEN acc
    ELSE CheckListItemsFrom(
             IF ListItemMatches(sample[i], markdown)
             THEN Passed(acc)
             ELSE Failed(acc, "listItems", Preview(sample[i])),
             sample, i + 1, markdown)

\* lines 594-620.  expectedFigures = 0 stands for an article that declares
\* none (undefined is as falsy as 0).
CheckImagesSection(acc, art, text) ==
    IF art.hasLocalImages /\ art.expectedFigures # 0
    THEN IF Len(figureMatches(text)) >= art.expectedFigures
         THEN Passed(acc)
         ELSE [acc EXCEPT
                 !.totalChecks = @ + 1,
                 !.missing.images =
                     art.expectedFigures - Len(figureMatches(text))]
    ELSE IF ~art.hasLocalImages
         THEN IF HasExternalImage(text)
              THEN Passed(acc)
              ELSE [acc EXCEPT !.totalChecks = @ + 1]
         ELSE acc

\* line 623
PassRate(total, passed) ==
    IF total > 0 THEN Quotient(passed, total) ELSE Quotient(0, 1)

\* a variant of HasMissingContent that forgets the images
HasMissingContentButImages(m) ==
    \/ m.title
    \/ \E category \in {"headings", "paragraphs", "codeBlocks", "formulas",
                        "listItems"} : Len(m[category]) > 0

\* lines 624-625
HasMissingContent(m) ==
    \/ m.title
    \/ m.images > 0
    \/ \E category \in {"headings", "paragraphs", "codeBlocks", "formulas",
                        "listItems"} : Len(m[category]) > 0

\* lines 623-634
CalculateResults(acc) ==
    LET passRate == PassRate(acc.totalChecks, acc.passedChecks)
        hasMissingContent == HasMissingContent(acc.missing)
    IN  [totalChecks |-> acc.totalChecks,
         passedChecks |-> acc.passedChecks,
         passRate |-> passRate,
         hasMissingContent |-> hasMissingContent,
         missing |-> acc.missing,
         success |-> \/ ~hasMissingContent
                     \/ AtLeastPercent(passRate, PassThresholdPercent)]

(***************************************************************************)
(* The inputs the model checker draws from                                 *)
(***************************************************************************)

MaxHeadings == 3
MaxParagraphs == 11
MaxListItems == 11
MaxCodeBlocks == 2
MaxRun == 3
MaxFigureRefs == 2
MaxExpectedFigures == 3

\* "# L <TIMES> L\n## Intro\n" (17 characters)
MdHead ==
    <<"#", " ", "L", " ", "TIMES", " ", "L", "\n", "#", "#", " ", "I",
    "n", "t", "r", "o", "\n">>

\* "the quick brown fox jumped over the lazy dog. it is an ox or so it is
\* an ox or so it is an ox or so it\n" (103 characters)
MdBody ==
    <<"t", "h", "e", " ", "q", "u", "i", "c", "k", " ", "b", "r", "o",
    "w", "n", " ", "f", "o", "x", " ", "j", "u", "m", "p", "e", "d", " ",
    "o", "v", "e", "r", " ", "t", "h", "e", " ", "l", "a", "z", "y", " ",
    "d", "o", "g", ".", " ", "i", "t", " ", "i", "s", " ", "a", "n", " ",
    "o", "x", " ", "o", "r", " ", "s", "o", " ", "i", "t", " ", "i", "s",
    " ", "a", "n", " ", "o", "x", " ", "o", "r", " ", "s", "o", " ", "i",
    "t", " ", "i", "s", " ", "a", "n", " ", "o", "x", " ", "o", "r", " ",
    "s", "o", " ", "i", "t", "\n">>

\* "a=1;\nb=2;\nc=3;\nd=4;\ne=5;\n" (25 characters)
MdCode ==
    <<"a", "=", "1", ";", "\n", "b", "=", "2", ";", "\n", "c", "=", "3",
    ";", "\n", "d", "=", "4", ";", "\n", "e", "=", "5", ";", "\n">>

\* "![a](http://h/i.png)\n" (21 characters)
MdExternalImage ==
    <<"!", "[", "a", "]", "(", "h", "t", "t", "p", ":", "/", "/", "h",
    "/", "i", ".", "p", "n", "g", ")", "\n">>

\* "L \\times L" (10 characters): in the markdown once normalized
TitlePresent ==
    <<"L", " ", Bs, "t", "i", "m", "e", "s", " ", "L">>

\* "L + L" (5 characters)
TitleAbsent ==
    <<"L", " ", "+", " ", "L">>

\* "Intro" (5 characters)
HeadingIntro ==
    <<"I", "n", "t", "r", "o">>

\* "INTRO" (5 characters): in the markdown once normalized
HeadingUpper ==
    <<"I", "N", "T", "R", "O">>

\* "Intra" (5 characters): one character of the heading altered
HeadingAltered ==
    <<"I", "n", "t", "r", "a">>

\* "The quick brown fox" (19 characters): 4 of 4 words
ParFull ==
    <<"T", "h", "e", " ", "q", "u", "i", "c", "k", " ", "b", "r", "o",
    "w", "n", " ", "f", "o", "x">>

\* "cat quick hen brown pig fox owl over lazy dog" (45 characters): 6 of 10
\* words
Par6of10 ==
    <<"c", "a", "t", " ", "q", "u", "i", "c", "k", " ", "h", "e", "n",
    " ", "b", "r", "o", "w", "n", " ", "p", "i", "g", " ", "f", "o", "x",
    " ", "o", "w", "l", " ", "o", "v", "e", "r", " ", "l", "a", "z", "y",
    " ", "d", "o", "g">>

\* "cat quick hen brown pig fox owl over lazy bat" (45 characters): 5 of 10
\* words
Par5of10 ==
    <<"c", "a", "t", " ", "q", "u", "i", "c", "k", " ", "h", "e", "n",
    " ", "b", "r", "o", "w", "n", " ", "p", "i", "g", " ", "f", "o", "x",
    " ", "o", "w", "l", " ", "o", "v", "e", "r", " ", "l", "a", "z", "y",
    " ", "b", "a", "t">>

\* "cat hen pig owl" (15 characters): 0 of 4 words
ParAbsent ==
    <<"c", "a", "t", " ", "h", "e", "n", " ", "p", "i", "g", " ", "o",
    "w", "l">>

\* "it is an ox or so" (17 characters): no word longer than 2, in the
\* markdown
ParShortNoWords ==
    <<"i", "t", " ", "i", "s", " ", "a", "n", " ", "o", "x", " ", "o",
    "r", " ", "s", "o">>

\* "it is an ox or so it is an ox" (29 characters): no word longer than 2,
\* in the markdown
ParLongNoWords ==
    <<"i", "t", " ", "i", "s", " ", "a", "n", " ", "o", "x", " ", "o",
    "r", " ", "s", "o", " ", "i", "t", " ", "i", "s", " ", "a", "n", " ",
    "o", "x">>

\* "it is an ox or so it is so an" (29 characters): no word longer than 2,
\* not in the markdown
ParLongNoWordsOut ==
    <<"i", "t", " ", "i", "s", " ", "a", "n", " ", "o", "x", " ", "o",
    "r", " ", "s", "o", " ", "i", "t", " ", "i", "s", " ", "s", "o", " ",
    "a", "n">>

\* "it is an ox or so it is an ox or so it is an ox or cat" (54
\* characters): 0 of 1 words, the first 50 characters in the markdown
ParPrefix50 ==
    <<"i", "t", " ", "i", "s", " ", "a", "n", " ", "o", "x", " ", "o",
    "r", " ", "s", "o", " ", "i", "t", " ", "i", "s", " ", "a", "n", " ",
    "o", "x", " ", "o", "r", " ", "s", "o", " ", "i", "t", " ", "i", "s",
    " ", "a", "n", " ", "o", "x", " ", "o", "r", " ", "c", "a", "t">>

\* "it is an ox or so it is an ox or so it is an ox ox cat" (54
\* characters): 0 of 1 words, only the first 49 characters in the markdown
ParPrefix49 ==
    <<"i", "t", " ", "i", "s", " ", "a", "n", " ", "o", "x", " ", "o",
    "r", " ", "s", "o", " ", "i", "t", " ", "i", "s", " ", "a", "n", " ",
    "o", "x", " ", "o", "r", " ", "s", "o", " ", "i", "t", " ", "i", "s",
    " ", "a", "n", " ", "o", "x", " ", "o", "x", " ", "c", "a", "t">>

\* "lazy dog" (8 characters): 2 of 2 words
ItemFull ==
    <<"l", "a", "z", "y", " ", "d", "o", "g">>

\* "cat hen" (7 characters): 0 of 2 words
ItemAbsent ==
    <<"c", "a", "t", " ", "h", "e", "n">>

\* "quick cat brown hen fox" (23 characters): 3 of 5 words
Item3of5 ==
    <<"q", "u", "i", "c", "k", " ", "c", "a", "t", " ", "b", "r", "o",
    "w", "n", " ", "h", "e", "n", " ", "f", "o", "x">>

\* "quick cat brown hen pig" (23 characters): 2 of 5 words
Item2of5 ==
    <<"q", "u", "i", "c", "k", " ", "c", "a", "t", " ", "b", "r", "o",
    "w", "n", " ", "h", "e", "n", " ", "p", "i", "g">>

\* "an ox" (5 characters): no word longer than 2, in the markdown
ItemShortNoWords ==
    <<"a", "n", " ", "o", "x">>

\* "it is an ox or so" (17 characters): no word longer than 2, in the
\* markdown
ItemLongNoWords ==
    <<"i", "t", " ", "i", "s", " ", "a", "n", " ", "o", "x", " ", "o",
    "r", " ", "s", "o">>

\* "it is an ox so or" (17 characters): no word longer than 2, not in the
\* markdown
ItemLongNoWordsOut ==
    <<"i", "t", " ", "i", "s", " ", "a", "n", " ", "o", "x", " ", "s",
    "o", " ", "o", "r">>

\* "it is an ox or so it is an ox or so it i cat" (44 characters): 0 of 1
\* words, the first 40 characters in the markdown
ItemPrefix40 ==
    <<"i", "t", " ", "i", "s", " ", "a", "n", " ", "o", "x", " ", "o",
    "r", " ", "s", "o", " ", "i", "t", " ", "i", "s", " ", "a", "n", " ",
    "o", "x", " ", "o", "r", " ", "s", "o", " ", "i", "t", " ", "i", " ",
    "c", "a", "t">>

\* "it is an ox or so it is an ox or so it x cat" (44 characters): 0 of 1
\* words, only the first 39 characters in the markdown
ItemPrefix39 ==
    <<"i", "t", " ", "i", "s", " ", "a", "n", " ", "o", "x", " ", "o",
    "r", " ", "s", "o", " ", "i", "t", " ", "i", "s", " ", "a", "n", " ",
    "o", "x", " ", "o", "r", " ", "s", "o", " ", "i", "t", " ", "x", " ",
    "c", "a", "t">>

\* "{\n}" (3 characters): no significant line
CodeNoLines ==
    <<"{", "\n", "}">>

\* "{}[]\n();;" (9 characters): lines of brackets only
CodeBrackets ==
    <<"{", "}", "[", "]", "\n", "(", ")", ";", ";">>

\* "a=1\nx=9;" (8 characters): one short line, one significant line that is
\* absent
CodeShortLine ==
    <<"a", "=", "1", "\n", "x", "=", "9", ";">>

\* "A=1;\n\tb=2;" (10 characters): two significant lines, both in the
\* markdown once trimmed and normalized
CodeIndented ==
    <<"A", "=", "1", ";", "\n", "\t", "b", "=", "2", ";">>

\* "![Figure 1](images/figure-1.png)\n"
RefFigure1 ==
    <<"!", "[", "F", "i", "g", "u", "r", "e", " ", "1", "]", "(", "i", "m",
      "a", "g", "e", "s", "/", "f", "i", "g", "u", "r", "e", "-", "1", ".",
      "p", "n", "g", ")", "\n">>

\* the Cyrillic abbreviation with a full stop, no space, and a .jpg file:
\* "![Ris.2](images/figure-2.jpg)\n"
RefRis2 ==
    <<"!", "[", "CYR_ER_UP", "CYR_I", "CYR_ES", ".", "2", "]", "(", "i",
      "m", "a", "g", "e", "s", "/", "f", "i", "g", "u", "r", "e", "-", "2",
      ".", "j", "p", "g", ")", "\n">>

\* a caption the pattern does not know: "![Fig 3](images/figure-3.png)\n"
RefUnknownCaption ==
    <<"!", "[", "F", "i", "g", " ", "3", "]", "(", "i", "m", "a", "g", "e",
      "s", "/", "f", "i", "g", "u", "r", "e", "-", "3", ".", "p", "n", "g",
      ")", "\n">>

RECURSIVE Flatten(_)
Flatten(seqs) ==
    IF seqs = <<>> THEN <<>> ELSE Head(seqs) \o Flatten(Tail(seqs))

SeqsUpTo(pool, n) == UNION {[1..k -> pool] : k \in 0..n}

\* lists of at most maxLen items, all `good` but for one run of at most
\* maxRun items that are `bad`
RunLists(good, bad, maxLen, maxRun) ==
    {[i \in 1..n |-> IF lo <= i /\ i < lo + len THEN bad ELSE good] :
        n \in 0..maxLen, lo \in 1..maxLen, len \in 0..maxRun}

\* the markdown file: head, body, code, figure references, external image
Markdown(refs, external) ==
    MdHead \o MdBody \o MdCode \o Flatten(refs)
        \o (IF external THEN MdExternalImage ELSE <<>>)

Markdowns ==
    {Markdown(refs, external) :
        refs \in SeqsUpTo({RefFigure1, RefRis2, RefUnknownCaption},
                          MaxFigureRefs),
        external \in BOOLEAN}

PlainMarkdown == Markdown(<<>>, FALSE)

\* entries of ARTICLES: expectedFigures is declared only together with
\* hasLocalImages: true
LocalArticle(n) == [hasLocalImages |-> TRUE, expectedFigures |-> n]
ExternalArticle == [hasLocalImages |-> FALSE, expectedFigures |-> 0]

Reference(t, h, p, c, l) ==
    [title |-> t, headings |-> h, paragraphs |-> p, codeBlocks |-> c,
     listItems |-> l]

Input(a, w, m) == [article |-> a, webContent |-> w, markdownText |-> m]

Heading(text) == [level |-> "h2", text |-> text]

\* a block of five lines; line i is line i of MdCode when i is in `present`
\* and a line the markdown does not hold otherwise
CodeOf(present) ==
    LET letters == <<"a", "b", "c", "d", "e">>
        digits == <<"1", "2", "3", "4", "5">>
        line(i) == <<(IF i \in present THEN letters[i] ELSE "x"), "=",
                     digits[i], ";">>
    IN  line(1) \o <<"\n">> \o line(2) \o <<"\n">> \o line(3) \o <<"\n">>
            \o line(4) \o <<"\n">> \o line(5)

Titles == {<<>>, TitlePresent, TitleAbsent}

HeadingPool ==
    {Heading(HeadingIntro), Heading(HeadingUpper), Heading(HeadingAltered)}

ParagraphPool ==
    {ParFull, Par6of10, Par5of10, ParAbsent, ParShortNoWords,
     ParLongNoWords, ParLongNoWordsOut, ParPrefix50, ParPrefix49}

ListItemPool ==
    {ItemFull, ItemAbsent, Item3of5, Item2of5, ItemShortNoWords,
     ItemLongNoWords, ItemLongNoWordsOut, ItemPrefix40, ItemPrefix39}

CodePool ==
    {CodeOf(present) : present \in SUBSET (1..5)}
        \cup {CodeNoLines, CodeBrackets, CodeShortLine, CodeIndented}

ParagraphLists ==
    SeqsUpTo(ParagraphPool, 1)
        \cup RunLists(ParFull, ParAbsent, MaxParagraphs, MaxRun)

ListItemLists ==
    SeqsUpTo(ListItemPool, 1)
        \cup RunLists(ItemFull, ItemAbsent, MaxListItems, MaxRun)

TenParagraphs == [i \in 1..10 |-> ParFull]

\* one item in every category, all combinations
SmallInputs ==
    {Input(am[1], Reference(t, <<h>>, <<p>>, <<c>>, <<l>>), am[2]) :
        am \in {<<LocalArticle(1), PlainMarkdown>>,
                <<ExternalArticle, Markdown(<<>>, TRUE)>>},
        t \in Titles,
        h \in {Heading(HeadingIntro), Heading(HeadingAltered)},
        p \in {ParFull, ParAbsent},
        c \in {CodeOf(1..5), CodeOf({})},
        l \in {ItemFull, ItemAbsent}}

HeadingInputs ==
    {Input(LocalArticle(0), Reference(<<>>, h, <<>>, <<>>, <<>>),
           PlainMarkdown) :
        h \in SeqsUpTo(HeadingPool, MaxHeadings)}

ParagraphInputs ==
    {Input(LocalArticle(0), Reference(<<>>, <<>>, p, <<>>, <<>>),
           PlainMarkdown) :
        p \in ParagraphLists}

ListItemInputs ==
    {Input(LocalArticle(0), Reference(<<>>, <<>>, p, <<>>, l),
           PlainMarkdown) :
        p \in {<<>>, TenParagraphs}, l \in ListItemLists}

CodeInputs ==
    {Input(LocalArticle(0), Reference(<<>>, <<>>, <<>>, c, <<>>),
           PlainMarkdown) :
        c \in {<<b>> : b \in CodePool}
              \cup SeqsUpTo({CodeOf({1, 2, 3}), CodeOf({1, 2}), CodeNoLines},
                            MaxCodeBlocks)}

ImageInputs ==
    {Input(a, Reference(TitlePresent, <<>>, <<>>, <<>>, <<>>), m) :
        a \in {ExternalArticle}
              \cup {LocalArticle(n) : n \in 0..MaxExpectedFigures},
        m \in Markdowns}

VerifyInputs ==
    SmallInputs \cup HeadingInputs \cup ParagraphInputs \cup ListItemInputs
        \cup CodeInputs \cup ImageInputs

(***************************************************************************)
(* verifyMarkdownContent as a state machine: one action per section        *)
(***************************************************************************)

Checks ==
    [missing |-> missing, totalChecks |-> totalChecks,
     passedChecks |-> passedChecks]

SetChecks(acc) ==
    /\ missing' = acc.missing
    /\ totalChecks' = acc.totalChecks
    /\ passedChecks' = acc.passedChecks

NoReport == [pending |-> TRUE]

\* for ... of over a property that is undefined, or .slice of it: TypeError
Throw ==
    /\ pc' = "threw"
    /\ UNCHANGED <<missing, totalChecks, passedChecks>>

NormIdle == nInput = <<>> /\ nOutput = <<>> /\ nCodeOutput = <<>>

InitWith(inputs) ==
    /\ \E in \in inputs :
         /\ article = in.article
         /\ webContent = in.webContent
         /\ markdownText = in.markdownText
    /\ normalizedMarkdown = <<>>
    /\ normalizedMarkdownForCode = <<>>
    /\ missing = NewChecks.missing
    /\ totalChecks = 0
    /\ passedChecks = 0
    /\ pc = "start"
    /\ report = NoReport
    /\ NormIdle
    /\ CliIdle
    /\ ScriptIdle
    /\ MathIdle
    /\ RunnerIdle
    /\ DownloadIdle

Init == InitWith(VerifyInputs)

\* lines 479-491
Begin ==
    /\ pc = "start"
    /\ normalizedMarkdown' = normalizeText(markdownText)
    /\ SetChecks(NewChecks)
    /\ pc' = "title"
    /\ UNCHANGED <<article, webContent, markdownText,
                   normalizedMarkdownForCode, report, outsideVerify>>

\* lines 493-505
CheckTitle ==
    /\ pc = "title"
    /\ SetChecks(CheckTitleSection(Checks, webContent, normalizedMarkdown))
    /\ pc' = "headings"
    /\ UNCHANGED <<article, webContent, markdownText, normalizedMarkdown,
                   normalizedMarkdownForCode, report, outsideVerify>>

\* lines 507-518
CheckHeadings ==
    /\ pc = "headings"
    /\ IF Has(webContent, "headings")
       THEN /\ SetChecks(CheckHeadingsFrom(Checks, webContent.headings, 1,
                                           normalizedMarkdown))
            /\ pc' = "paragraphs"
       ELSE Throw
    /\ UNCHANGED <<article, webContent, markdownText, normalizedMarkdown,
                   normalizedMarkdownForCode, report, outsideVerify>>

\* lines 520-543
CheckParagraphs ==
    /\ pc = "paragraphs"
    /\ IF Has(webContent, "paragraphs")
       THEN /\ SetChecks(CheckParagraphsFrom(
                   Checks, paragraphsToCheck(webContent.paragraphs), 1,
                   normalizedMarkdown))
            /\ pc' = "codeBlocks"
       ELSE Throw
    /\ UNCHANGED <<article, webContent, markdownText, normalizedMarkdown,
                   normalizedMarkdownForCode, report, outsideVerify>>

\* lines 545-569
CheckCodeBlocks ==
    /\ pc = "codeBlocks"
    /\ LET markdownForCode == normalizeCode(markdownText)
       IN  /\ normalizedMarkdownForCode' = markdownForCode
           /\ IF Has(webContent, "codeBlocks")
              THEN /\ SetChecks(CheckCodeBlocksFrom(
                          Checks, webContent.codeBlocks, 1, markdownForCode))
                   /\ pc' = "listItems"
              ELSE Throw
    /\ UNCHANGED <<article, webContent, markdownText, normalizedMarkdown,
                   report, outsideVerify>>

\* lines 571-591
CheckListItems ==
    /\ pc = "listItems"
    /\ IF Has(webContent, "listItems")
       THEN /\ SetChecks(CheckListItemsFrom(
                   Checks, listItemsToCheck(webContent.listItems), 1,
                   normalizedMarkdown))
            /\ pc' = "images"
       ELSE Throw
    /\ UNCHANGED <<article, webContent, markdownText, normalizedMarkdown,
                   normalizedMarkdownForCode, report, outsideVerify>>

\* lines 593-620
CheckImages ==
    /\ pc = "images"
    /\ SetChecks(CheckImagesSection(Checks, article, markdownText))
    /\ pc' = "results"
    /\ UNCHANGED <<article, webContent, markdownText, normalizedMarkdown,
                   normalizedMarkdownForCode, report, outsideVerify>>

\* lines 622-634
Return ==
    /\ pc = "results"
    /\ report' = CalculateResults(Checks)
    /\ pc' = "done"
    /\ UNCHANGED <<article, webContent, markdownText, normalizedMarkdown,
                   normalizedMarkdownForCode, missing, totalChecks,
                   passedChecks, outsideVerify>>

Next ==
    \/ Begin
    \/ CheckTitle
    \/ CheckHeadings
    \/ CheckParagraphs
    \/ CheckCodeBlocks
    \/ CheckListItems
    \/ CheckImages
    \/ Return

Spec == Init /\ [][Next]_vars

\* The function as a whole, for a reference that has all its properties:
\* the sections applied one after the other, given the two normalized forms
\* of the markdown.
verifyWith(art, content, text, markdown, markdownForCode) ==
    LET a1 == CheckTitleSection(NewChecks, content, markdown)
        a2 == CheckHeadingsFrom(a1, content.headings, 1, markdown)
        a3 == CheckParagraphsFrom(a2, paragraphsToCheck(content.paragraphs),
                                  1, markdown)
        a4 == CheckCodeBlocksFrom(a3, content.codeBlocks, 1, markdownForCode)
        a5 == CheckListItemsFrom(a4, listItemsToCheck(content.listItems),
                                 1, markdown)
        a6 == CheckImagesSection(a5, art, text)
    IN  CalculateResults(a6)

verifyMarkdownContent(art, content, text) ==
    verifyWith(art, content, text, normalizeText(text), normalizeCode(text))

(***************************************************************************)
(* The same function on a reference that lacks some of its properties      *)
(***************************************************************************)

ReferenceFields ==
    {"title", "headings", "paragraphs", "codeBlocks", "listItems"}

\* the reference without the properties outside `fields`
Only(content, fields) == [f \in fields |-> content[f]]

\* the reference with every property it lacks set to the empty sequence
Completed(content) ==
    [f \in ReferenceFields |-> IF Has(content, f) THEN content[f] ELSE <<>>]

PartialInputs ==
    {Input(a, Only(Reference(TitlePresent, h, p, c, l), fields),
           PlainMarkdown) :
        a \in {LocalArticle(0), ExternalArticle},
        h \in {<<Heading(HeadingIntro)>>},
        p \in {<<ParFull>>, <<ParAbsent>>},
        c \in {<<CodeOf(1..5)>>},
        l \in {<<ItemFull>>},
        fields \in (SUBSET ReferenceFields) \ {ReferenceFields}}

PartialInit == InitWith(PartialInputs)

PartialSpec == PartialInit /\ [][Next]_vars

(***************************************************************************)
(* A normalizer applied again and again to one string                      *)
(***************************************************************************)

MaxTokens == 3
MaxApplications == 2

\* the glyphs of the symbol rules and what may stand next to them
SymbolTokens ==
    {<<"TIMES">>, <<"RARROW">>, <<"SUBSETEQ">>, <<"ELEMENT">>,
     <<"EMPTYSET">>, <<"SUP2">>, <<"SUPN">>,
     <<Bs>>, <<"^">>, <<"$">>, <<"n">>}

\* whitespace of several kinds, an invisible character and a delimiter
\* between letters
SpacingTokens ==
    {<<"a">>, <<"b">>, <<" ">>, <<"\n">>, <<"NBSP">>, <<"EMSP">>,
     <<"NBSP", "EMSP", " ">>, <<"ZWSP">>, <<"$">>}

\* typographic and ASCII quotes
QuoteTokens ==
    {<<"a">>, <<"'">>, <<"\"">>, <<"LSQUO">>, <<"RSQUO">>, <<"LDQUO">>,
     <<"RDQUO">>}

\* the pieces the strings handed to the normalizers are made of
NormTokens == SymbolTokens \cup SpacingTokens \cup QuoteTokens

TokenStrings(pool) == {Flatten(tokens) : tokens \in SeqsUpTo(pool, MaxTokens)}

\* strings of tokens of one kind
NormInputs ==
    TokenStrings(SymbolTokens) \cup TokenStrings(SpacingTokens)
        \cup TokenStrings(QuoteTokens)

VerifyIdle ==
    /\ article = LocalArticle(0)
    /\ webContent = Reference(<<>>, <<>>, <<>>, <<>>, <<>>)
    /\ markdownText = <<>>
    /\ normalizedMarkdown = <<>>
    /\ normalizedMarkdownForCode = <<>>
    /\ missing = NewChecks.missing
    /\ totalChecks = 0
    /\ passedChecks = 0
    /\ pc = "idle"
    /\ report = NoReport

NormInit ==
    /\ nInput \in NormInputs
    /\ nOutput = <<>>
    /\ nCodeOutput = <<>>
    /\ VerifyIdle
    /\ CliIdle
    /\ ScriptIdle
    /\ MathIdle
    /\ RunnerIdle
    /\ DownloadIdle

\* the string the next application is given
NormCurrent == IF nOutput = <<>> THEN nInput ELSE nOutput[Len(nOutput)]

ApplyNormalizeText ==
    /\ Len(nOutput) < MaxApplications
    /\ nOutput' = Append(nOutput, normalizeText(NormCurrent))
    /\ UNCHANGED <<nInput, nCodeOutput, outsideNorm>>

ApplyNormalizeCode ==
    /\ nCodeOutput = <<>>
    /\ nCodeOutput' = <<normalizeCode(nInput)>>
    /\ UNCHANGED <<nInput, nOutput, outsideNorm>>

NormNext == ApplyNormalizeText \/ ApplyNormalizeCode

NormSpec == NormInit /\ [][NormNext]_vars

(***************************************************************************)
(* The verify command line: main                                           *)
(***************************************************************************)

\* ARTICLES of articles-config.mjs, by version
ARTICLES ==
    [version \in {"0.0.0", "0.0.1", "0.0.2"} |->
        IF version = "0.0.2" THEN LocalArticle(13) ELSE ExternalArticle]

\* Object.values(ARTICLES), as versions, in the order of the object literal
getAllArticles == <<"0.0.0", "0.0.1", "0.0.2">>

\* the version is a key of ARTICLES
Configured(version) == version \in DOMAIN ARTICLES

\* names every object literal inherits from Object.prototype, among them
\* the constructor and the toString function
ObjectPrototypeNames == {"constructor", "toString"}

\* getArticle(version) returns: ARTICLES[version] is not falsy, which an
\* inherited property is not either
getArticleReturns(version) ==
    version \in DOMAIN ARTICLES \cup ObjectPrototypeNames

\* what a call of verifyArticle may do: return result.success = true,
\* return result.success = false, return false for a markdown file that does
\* not exist, throw
Outcomes == {"success", "failure", "noMarkdown", "threw"}

\* a verifyArticle that opens the web page before it looks for the file
OpensPageFirst(outcome) == TRUE

\* lines 647-654: verifyArticle returns false for a markdown file that does
\* not exist, before extractWebPageContent opens the page
OpensPage(outcome) == outcome # "noMarkdown"

\* a variant of AllPassedAfter where the last article decides
AllPassedLast(passed, outcome) == outcome = "success"

\* if (!success) allPassed = false;  and  allPassed = false  in the catch
AllPassedAfter(passed, outcome) == passed /\ outcome = "success"

CliInit ==
    /\ cliOptions \in [all : BOOLEAN,
                       version : {"none", "0.0.0", "0.0.1", "0.0.2", "9.9.9",
                                  "constructor"}]
    /\ cliOutcomes \in [DOMAIN ARTICLES -> Outcomes]
    /\ cliArticles = <<>>
    /\ cliResults = <<>>
    /\ pagesOpened = <<>>
    /\ allPassed = TRUE
    /\ cliPc = "main"
    /\ exitCode = NotExited
    /\ VerifyIdle
    /\ NormIdle
    /\ ScriptIdle
    /\ MathIdle
    /\ RunnerIdle
    /\ DownloadIdle

\* lines 705-734: the help text, the articles to process
SelectArticles ==
    /\ cliPc = "main"
    /\ IF ~cliOptions.all /\ cliOptions.version = "none"
       THEN /\ exitCode' = 0
            /\ cliPc' = "exited"
            /\ UNCHANGED cliArticles
       ELSE IF cliOptions.all
       THEN /\ cliArticles' = getAllArticles
            /\ cliPc' = "loop"
            /\ UNCHANGED exitCode
       ELSE IF getArticleReturns(cliOptions.version)
       THEN /\ cliArticles' = <<cliOptions.version>>
            /\ cliPc' = "loop"
            /\ UNCHANGED exitCode
       ELSE \* getArticle throws; main().catch (lines 764-767)
            /\ exitCode' = 1
            /\ cliPc' = "exited"
            /\ UNCHANGED cliArticles
    /\ UNCHANGED <<cliOptions, cliOutcomes, cliResults, pagesOpened,
                   allPassed, outsideCli>>

\* lines 739-749: one turn of the loop; for an inherited property, which
\* has no archivePath, join (line 641) throws before anything is done
VerifyNextArticle ==
    /\ cliPc = "loop"
    /\ Len(cliResults) < Len(cliArticles)
    /\ LET version == cliArticles[Len(cliResults) + 1]
           outcome == IF Configured(version) THEN cliOutcomes[version]
                      ELSE "threw"
       IN  /\ cliResults' =
                  Append(cliResults,
                         [article |-> version,
                          success |-> outcome = "success"])
           /\ pagesOpened' =
                  IF Configured(version) /\ OpensPage(outcome)
                  THEN Append(pagesOpened, version) ELSE pagesOpened
           /\ allPassed' = AllPassedAfter(allPassed, outcome)
    /\ UNCHANGED <<cliOptions, cliOutcomes, cliArticles, cliPc, exitCode,
                   outsideCli>>

\* line 762
Exit ==
    /\ cliPc = "loop"
    /\ Len(cliResults) = Len(cliArticles)
    /\ exitCode' = IF allPassed THEN 0 ELSE 1
    /\ cliPc' = "exited"
    /\ UNCHANGED <<cliOptions, cliOutcomes, cliArticles, cliResults,
                   pagesOpened, allPassed, outsideCli>>

CliNext == SelectArticles \/ VerifyNextArticle \/ Exit

CliSpec == CliInit /\ [][CliNext]_vars

(***************************************************************************)
(* The image download script (experiments/extract-images.mjs) and the      *)
(* article download script (scripts/debug-selectors.mjs, from line 303):   *)
(* processArticle and downloadArticle on one article directory.            *)
(*                                                                         *)
(* A directory state holds: archiveDir (the article directory exists),     *)
(* markdown (<<>> when the markdown file is absent, <<text>> when present),*)
(* imagesDir (the images directory exists), images (the files in it, each  *)
(* with its name and whether its content is complete), metadata (<<>> or   *)
(* <<the list written to metadata.json>>).                                 *)
(***************************************************************************)

\* `![${image.altText}](${relativePath})` and the shape of an image in
\* markdown
ImageSyntax(altText, url) ==
    <<"!", "[">> \o altText \o <<"]", "(">> \o url \o <<")">>

\* first index >= from whose character satisfies Stop, Len(s) + 1 if none
FirstFrom(s, from, Stop(_)) ==
    LET at == {j \in from..Len(s) : Stop(s[j])}
    IN  IF at = {} THEN Len(s) + 1
        ELSE CHOOSE j \in at : \A k \in at : j <= k

IsClosingBracket(c) == c = "]"
IsClosingParen(c) == c = ")"

\* /!\[([^\]]*)\]\((https?:\/\/[^)]+)\)/ tried at index i: the match as
\* <<end, first of alt, last of alt, first of url, last of url>>, or <<>>
ImageMatchAt(s, i) ==
    IF ~MatchAt(s, i, <<"!", "[">>) THEN <<>>
    ELSE LET close == FirstFrom(s, i + 2, IsClosingBracket)
             u == close + 2
             https == <<"h", "t", "t", "p", "s", ":", "/", "/">>
             http == <<"h", "t", "t", "p", ":", "/", "/">>
             scheme == IF MatchAt(s, u, https) THEN Len(https)
                       ELSE IF MatchAt(s, u, http) THEN Len(http)
                       ELSE 0
             paren == FirstFrom(s, u + scheme, IsClosingParen)
         IN  IF /\ MatchAt(s, close, <<"]", "(">>)
                /\ scheme > 0
                /\ paren <= Len(s)
                /\ paren > u + scheme
             THEN <<paren, i + 2, close - 1, u, paren - 1>>
             ELSE <<>>

\* the exec loop of a global regular expression: leftmost matches, each
\* search resuming after the previous match
RECURSIVE ImageMatchesFrom(_, _)
ImageMatchesFrom(s, from) ==
    LET starts == {i \in from..Len(s) : ImageMatchAt(s, i) # <<>>}
    IN  IF starts = {} THEN <<>>
        ELSE LET i == CHOOSE j \in starts : \A k \in starts : j <= k
                 m == ImageMatchAt(s, i)
             IN  <<[fullMatch |-> SubSeq(s, i, m[1]),
                    altText |-> SubSeq(s, m[2], m[3]),
                    url |-> SubSeq(s, m[4], m[5])]>>
                 \o ImageMatchesFrom(s, m[1] + 1)

extractImageReferences(text) == ImageMatchesFrom(text, 1)

StartsWith(s, pat) == MatchAt(s, 1, pat)

\* the filter of processArticle (lines 311-314)
IsExternalImage(img) ==
    \/ Includes(img.url, <<"h", "a", "b", "r", "a", "s", "t", "o", "r", "a",
                            "g", "e", ".", "o", "r", "g">>)
    \/ /\ StartsWith(img.url, <<"h", "t", "t", "p">>)
       /\ ~Includes(img.url, <<"i", "m", "a", "g", "e", "s", "/">>)

\* path.extname: from the last "." of the last path component, "" when the
\* component has no "." or only a leading one
extname(path) ==
    LET slashes == {i \in 1..Len(path) : path[i] = "/"}
        start == IF slashes = {} THEN 1
                 ELSE 1 + CHOOSE i \in slashes : \A k \in slashes : k <= i
        dots == {i \in start..Len(path) : path[i] = "."}
        dot == IF dots = {} THEN 0
               ELSE CHOOSE i \in dots : \A k \in dots : k <= i
    IN  IF dot <= start THEN <<>> ELSE SubSeq(path, dot, Len(path))

getExtensionFromUrl(url) ==
    LET ext == ToLowerCase(extname(Split(url, "?")[1]))
    IN  IF ext = <<>> THEN <<".", "p", "n", "g">> ELSE ext

DigitChar(d) == <<"0", "1", "2", "3", "4", "5", "6", "7", "8", "9">>[d + 1]

\* String(n).padStart(2, '0') for 0 <= n <= 99
PadStart2(n) == <<DigitChar(n \div 10), DigitChar(n % 10)>>

\* index is the zero-based position in externalImages
generateLocalFilename(url, index) ==
    <<"i", "m", "a", "g", "e", "-">> \o PadStart2(index + 1)
    \o getExtensionFromUrl(url)

RelativePath(localFilename) ==
    <<"i", "m", "a", "g", "e", "s", "/">> \o localFilename

\* the replacement text of String.prototype.replace with a string pattern:
\* $$ inserts "$", $& the matched text, $ with a grave accent (written
\* "GRAVE" here) the text before the match and $' the text after it
RECURSIVE ExpandReplacement(_, _, _, _)
ExpandReplacement(to, matched, before, after) ==
    IF to = <<>> THEN <<>>
    ELSE IF to[1] = "$" /\ Len(to) >= 2 /\ to[2] \in {"$", "&", "GRAVE", "'"}
    THEN (CASE to[2] = "$" -> <<"$">>
            [] to[2] = "&" -> matched
            [] to[2] = "GRAVE" -> before
            [] OTHER -> after)
         \o ExpandReplacement(SubSeq(to, 3, Len(to)), matched, before, after)
    ELSE <<to[1]>> \o ExpandReplacement(Tail(to), matched, before, after)

\* markdownText.replace(from, to): the first occurrence only
ReplaceFirst(text, from, to) ==
    LET at == {i \in 1..(Len(text) - Len(from) + 1) : MatchAt(text, i, from)}
    IN  IF at = {} THEN text
        ELSE LET i == CHOOSE j \in at : \A k \in at : j <= k
                 before == SubSeq(text, 1, i - 1)
                 after == SubSeq(text, i + Len(from), Len(text))
             IN  before \o ExpandReplacement(to, from, before, after) \o after

\* the loop of lines 369-371
RECURSIVE ApplyReplacements(_, _)
ApplyReplacements(text, reps) ==
    IF reps = <<>> THEN text
    ELSE ApplyReplacements(ReplaceFirst(text, Head(reps).from, Head(reps).to),
                           Tail(reps))

\* r.to.match(/\(([^)]+)\)/)[1]: the first non-empty parenthesised text
FirstParenthesised(to) ==
    LET opens == {i \in 1..Len(to) :
                     /\ to[i] = "("
                     /\ FirstFrom(to, i + 1, IsClosingParen) <= Len(to)
                     /\ FirstFrom(to, i + 1, IsClosingParen) > i + 1}
        i == CHOOSE j \in opens : \A k \in opens : j <= k
    IN  SubSeq(to, i + 1, FirstFrom(to, i + 1, IsClosingParen) - 1)

\* lines 379-384
Metadata(reps, images) ==
    [i \in 1..Len(reps) |->
        [index |-> i,
         originalUrl |-> images[i].url,
         altText |-> images[i].altText,
         localPath |-> FirstParenthesised(reps[i].to)]]

\* createWriteStream(filepath) followed by the response piped into it: the
\* file is created or truncated, and filled only by a successful download
WriteImage(images, name, complete) ==
    {f \in images : f.name # name}
    \cup {[name |-> name, complete |-> complete]}


\* ---- inputs ----

\* an image hosted on habrastorage.org
UrlHabr ==
    <<"h", "t", "t", "p", "s", ":", "/", "/", "h", "a", "b", "r", "a",
    "s", "t", "o", "r", "a", "g", "e", ".", "o", "r", "g", "/", "a", ".",
    "p", "n", "g">>

\* an image elsewhere, with a query and an upper-case extension
UrlQuery ==
    <<"h", "t", "t", "p", "s", ":", "/", "/", "x", ".", "i", "o", "/",
    "b", ".", "J", "P", "G", "?", "v", "=", "1">>

\* an absolute URL that holds "images/": not taken for an external image
UrlLocalized ==
    <<"h", "t", "t", "p", ":", "/", "/", "x", ".", "i", "o", "/", "i",
    "m", "a", "g", "e", "s", "/", "c", ".", "p", "n", "g">>

\* a reference that a previous run has already made local
AlreadyLocal ==
    ImageSyntax(<<"d">>, RelativePath(generateLocalFilename(UrlHabr, 0)))

MarkdownPieces ==
    {ImageSyntax(<<"a">>, UrlHabr), ImageSyntax(<<>>, UrlQuery),
     ImageSyntax(<<"c">>, UrlLocalized), AlreadyLocal, <<"t", "\n">>}

MaxPieces == 2

ScriptMarkdowns ==
    {Flatten(pieces) : pieces \in SeqsUpTo(MarkdownPieces, MaxPieces)}

\* the article directory before processArticle: with or without the
\* markdown file, with or without the images directory and an image in it
ProcessDirectories ==
    {[NoFiles EXCEPT !.archiveDir = TRUE]}
    \cup {[archiveDir |-> TRUE, markdown |-> <<text>>, imagesDir |-> FALSE,
           images |-> {}, metadata |-> <<>>] : text \in ScriptMarkdowns}
    \cup {[archiveDir |-> TRUE, markdown |-> <<text>>, imagesDir |-> TRUE,
           images |-> files, metadata |-> <<>>] :
             text \in ScriptMarkdowns,
             files \in {{}, {[name |-> generateLocalFilename(UrlHabr, 0),
                              complete |-> TRUE]}}}

\* what contentToMarkdown makes of the extracted content
ConvertedMarkdown == <<"#", " ", "t", "\n">>

\* the article directory before downloadArticle: absent, empty, or holding
\* an earlier download
DownloadDirectories ==
    {NoFiles, [NoFiles EXCEPT !.archiveDir = TRUE],
     [NoFiles EXCEPT !.archiveDir = TRUE, !.markdown = <<(<<"o">>)>>]}

ScriptInit ==
    /\ \/ script = "processArticle" /\ fsInitial \in ProcessDirectories
       \/ script = "downloadArticle" /\ fsInitial \in DownloadDirectories
    /\ dryRun \in BOOLEAN
    /\ fs = fsInitial
    /\ sPc = script
    /\ externalImages = <<>>
    /\ imageIndex = 0
    /\ replacements = <<>>
    /\ downloadedCount = 0
    /\ sMarkdownText = <<>>
    /\ sResult = <<>>
    /\ VerifyIdle
    /\ NormIdle
    /\ CliIdle
    /\ MathIdle
    /\ RunnerIdle
    /\ DownloadIdle

\* ---- processArticle ----

\* lines 289-334: the markdown file is read, its external images are
\* listed and the images directory is made
ProcessStart ==
    /\ sPc = "processArticle"
    /\ IF fs.markdown = <<>>
       THEN /\ sResult' = [success |-> FALSE,
                           error |-> "Markdown file not found"]
            /\ sPc' = "done"
            /\ UNCHANGED <<fs, externalImages, sMarkdownText>>
       ELSE LET text == fs.markdown[1]
                external == SelectSeq(extractImageReferences(text),
                                      IsExternalImage)
            IN  /\ sMarkdownText' = text
                /\ externalImages' = external
                /\ IF external = <<>>
                   THEN /\ sResult' = [success |-> TRUE, downloaded |-> 0]
                        /\ sPc' = "done"
                        /\ UNCHANGED fs
                   ELSE \* mkdirSync(imagesDir, { recursive: true })
                        /\ fs' = [fs EXCEPT !.imagesDir = TRUE]
                        /\ sPc' = "images"
                        /\ UNCHANGED sResult
    /\ UNCHANGED <<script, dryRun, fsInitial, imageIndex, replacements,
                   downloadedCount, outsideScript>>

\* lines 332-363: one turn of the download loop; downloadFile resolves or
\* rejects
DownloadImage ==
    /\ sPc = "images"
    /\ imageIndex < Len(externalImages)
    /\ LET image == externalImages[imageIndex + 1]
           localFilename == generateLocalFilename(image.url, imageIndex)
           replacement == [from |-> image.fullMatch,
                           to |-> ImageSyntax(image.altText,
                                              RelativePath(localFilename))]
       IN  \/ /\ dryRun
              /\ replacements' = Append(replacements, replacement)
              /\ UNCHANGED <<fs, downloadedCount>>
           \/ /\ ~dryRun
              /\ \E resolved \in BOOLEAN :
                    /\ fs' = [fs EXCEPT !.images =
                                 WriteImage(@, localFilename, resolved)]
                    /\ downloadedCount' =
                           IF resolved THEN downloadedCount + 1
                           ELSE downloadedCount
                    /\ replacements' =
                           IF resolved THEN Append(replacements, replacement)
                           ELSE replacements
    /\ imageIndex' = imageIndex + 1
    /\ sPc' = IF imageIndex + 1 < Len(externalImages) THEN "images"
              ELSE "update"
    /\ UNCHANGED <<script, dryRun, fsInitial, externalImages, sMarkdownText,
                   sResult, outsideScript>>

\* lines 365-375: the references are replaced and the markdown file written
UpdateMarkdown ==
    /\ sPc = "update"
    /\ IF Len(replacements) > 0 /\ ~dryRun
       THEN LET text == ApplyReplacements(sMarkdownText, replacements)
            IN  /\ sMarkdownText' = text
                /\ fs' = [fs EXCEPT !.markdown = <<text>>]
       ELSE UNCHANGED <<fs, sMarkdownText>>
    /\ sPc' = "metadata"
    /\ UNCHANGED <<script, dryRun, fsInitial, externalImages, imageIndex,
                   replacements, downloadedCount, sResult, outsideScript>>

\* lines 377-400: metadata.json is written and the summary returned
SaveMetadata ==
    /\ sPc = "metadata"
    /\ IF downloadedCount > 0 /\ ~dryRun
       THEN fs' = [fs EXCEPT !.metadata =
                      <<Metadata(replacements, externalImages)>>]
       ELSE UNCHANGED fs
    /\ sResult' = [success |-> TRUE, downloaded |-> downloadedCount,
                   total |-> Len(externalImages),
                   replacements |-> Len(replacements)]
    /\ sPc' = "done"
    /\ UNCHANGED <<script, dryRun, fsInitial, externalImages, imageIndex,
                   replacements, downloadedCount, sMarkdownText,
                   outsideScript>>

\* ---- downloadArticle ----

\* lines 749-762: the archive directory is made
DownloadStart ==
    /\ sPc = "downloadArticle"
    /\ fs' = [fs EXCEPT !.archiveDir = TRUE]
    /\ sPc' = "extract"
    /\ UNCHANGED <<script, dryRun, fsInitial, externalImages, imageIndex,
                   replacements, downloadedCount, sMarkdownText, sResult,
                   outsideScript>>

\* lines 764-777: extractArticleContent returns the content, returns null
\* or throws; the content is converted
ExtractContent ==
    /\ sPc = "extract"
    /\ \E outcome \in {"content", "null", "threw"} :
          CASE outcome = "content" ->
                   /\ sMarkdownText' = ConvertedMarkdown
                   /\ sPc' = "save"
                   /\ UNCHANGED sResult
            [] outcome = "null" ->
                   /\ sResult' = [success |-> FALSE,
                                  error |-> "Failed to extract content"]
                   /\ sPc' = "done"
                   /\ UNCHANGED sMarkdownText
            [] OTHER ->
                   /\ sResult' = [threw |-> TRUE]
                   /\ sPc' = "done"
                   /\ UNCHANGED sMarkdownText
    /\ UNCHANGED <<script, dryRun, fsInitial, fs, externalImages, imageIndex,
                   replacements, downloadedCount, outsideScript>>

\* lines 779-790: the dry run returns, otherwise the markdown file is
\* written
SaveMarkdown ==
    /\ sPc = "save"
    /\ IF dryRun
       THEN /\ sResult' = [success |-> TRUE, dryRun |-> TRUE]
            /\ UNCHANGED fs
       ELSE /\ fs' = [fs EXCEPT !.markdown = <<sMarkdownText>>]
            /\ sResult' = [success |-> TRUE, size |-> Len(sMarkdownText)]
    /\ sPc' = "done"
    /\ UNCHANGED <<script, dryRun, fsInitial, externalImages, imageIndex,
                   replacements, downloadedCount, sMarkdownText,
                   outsideScript>>

ScriptNext ==
    \/ ProcessStart
    \/ DownloadImage
    \/ UpdateMarkdown
    \/ SaveMetadata
    \/ DownloadStart
    \/ ExtractContent
    \/ SaveMarkdown

ScriptSpec == ScriptInit /\ [][ScriptNext]_vars

(***************************************************************************)
(* The math conversion verifier (scripts/verify-math-conversion.mjs).      *)
(* An issue is a record with its type, the text found and its severity.    *)
(***************************************************************************)

\* the matches of a global regular expression in s, as String.prototype.match
\* gives them: ends[i] is the index where the match starting at i ends (0
\* when there is none); the leftmost match is taken and the search resumes
\* after it
RECURSIVE LeftmostFrom(_, _, _)
LeftmostFrom(s, ends, from) ==
    LET starts == {i \in from..Len(s) : ends[i] > 0}
    IN  IF starts = {} THEN <<>>
        ELSE LET i == CHOOSE j \in starts : \A k \in starts : j <= k
             IN  <<SubSeq(s, i, ends[i])>>
                 \o LeftmostFrom(s, ends, ends[i] + 1)

MatchAll(s, EndAt(_, _)) ==
    LeftmostFrom(s, [i \in 1..Len(s) |-> EndAt(s, i)], 1)

IsDollar(c) == c = "$"

\* /\$\$/
DollarsEnd(s, i) == IF MatchAt(s, i, <<"$", "$">>) THEN i + 1 ELSE 0

\* /\$\$[^$]+\$\$/
BlockFormulaEnd(s, i) ==
    LET j == FirstFrom(s, i + 2, IsDollar)
    IN  IF /\ MatchAt(s, i, <<"$", "$">>)
           /\ j > i + 2
           /\ MatchAt(s, j, <<"$", "$">>)
        THEN j + 1 ELSE 0

\* /(?<!\$)\$(?!\$)[^$]+\$(?!\$)/
InlineFormulaEnd(s, i) ==
    LET j == FirstFrom(s, i + 1, IsDollar)
    IN  IF /\ s[i] = "$"
           /\ i > 1 => s[i - 1] # "$"
           /\ j > i + 1
           /\ j <= Len(s)
           /\ j < Len(s) => s[j + 1] # "$"
        THEN j ELSE 0

\* /\\name(?![a-zA-Z])/ for a LaTeX command name
CommandEnd(s, i, name) ==
    LET last == i + Len(name)
    IN  IF /\ MatchAt(s, i, <<Bs>> \o name)
           /\ last < Len(s) => s[last + 1] \notin UpperCase \cup LowerCase
        THEN last ELSE 0

\* /\\mathbb\{[A-Z]\}/
MathbbEnd(s, i) ==
    IF /\ MatchAt(s, i, <<Bs, "m", "a", "t", "h", "b", "b", "{">>)
       /\ i + 9 <= Len(s)
       /\ s[i + 8] \in UpperCase
       /\ s[i + 9] = "}"
    THEN i + 9 ELSE 0

\* /\[[^\]]+\]\([^)]+\)/ when brackets = 1 and /\[\[[^\]]+\]\]\([^)]+\)/
\* when brackets = 2
LinkEnd(s, i, brackets) ==
    LET opening == [k \in 1..brackets |-> "["]
        closing == [k \in 1..brackets |-> "]"] \o <<"(">>
        close == FirstFrom(s, i + brackets, IsClosingBracket)
        target == close + brackets + 1
        paren == FirstFrom(s, target, IsClosingParen)
    IN  IF /\ MatchAt(s, i, opening)
           /\ close > i + brackets
           /\ MatchAt(s, close, closing)
           /\ paren > target
           /\ paren <= Len(s)
        THEN paren ELSE 0

\* blockContent.join('\n')
JoinLines(lines) ==
    Join([k \in 1..(2 * Len(lines) - 1) |->
             IF k % 2 = 1 THEN lines[(k + 1) \div 2] ELSE <<"\n">>])

\* lines 29-61; open is <<>> outside a code block and <<the block begun>>
\* inside one; "GRAVE" is the grave accent of a code fence
RECURSIVE CodeBlocksFrom(_, _, _)
CodeBlocksFrom(lines, i, open) ==
    IF i > Len(lines) THEN <<>>
    ELSE IF StartsWith(lines[i], <<"GRAVE", "GRAVE", "GRAVE">>)
    THEN IF open = <<>>
         THEN CodeBlocksFrom(lines, i + 1,
                  <<[startLine |-> i,
                     language |-> Trim(SubSeq(lines[i], 4, Len(lines[i]))),
                     content |-> <<>>]>>)
         ELSE <<[open[1] EXCEPT !.content = JoinLines(@)]>>
              \o CodeBlocksFrom(lines, i + 1, <<>>)
    ELSE IF open # <<>>
    THEN CodeBlocksFrom(lines, i + 1,
             <<[open[1] EXCEPT !.content = Append(@, lines[i])]>>)
    ELSE CodeBlocksFrom(lines, i + 1, open)

extractCodeBlocks(markdown) ==
    CodeBlocksFrom(Split(markdown, "\n"), 1, <<>>)

\* lines 67-100
extractFormulaBlocks(markdown) ==
    LET lines == Split(markdown, "\n")
        found(i, matches, type) ==
            [k \in 1..Len(matches) |->
                [content |-> matches[k], line |-> i, type |-> type]]
    IN  Flatten([i \in 1..Len(lines) |->
            found(i, MatchAll(lines[i], BlockFormulaEnd), "inline")
            \o found(i, MatchAll(lines[i], InlineFormulaEnd),
                     "inline-single")])

Issue(type, found, severity) ==
    [type |-> type, found |-> found, severity |-> severity]

IssuesFor(matches, type, severity) ==
    [k \in 1..Len(matches) |-> Issue(type, matches[k], severity)]

\* the matches of the patterns of latexPatterns (lines 109-118), in order
LatexMatches(content, k) ==
    LET times(s, i) == CommandEnd(s, i, <<"t", "i", "m", "e", "s">>)
        to(s, i) == CommandEnd(s, i, <<"t", "o">>)
        subseteq(s, i) ==
            CommandEnd(s, i, <<"s", "u", "b", "s", "e", "t", "e", "q">>)
        in(s, i) == CommandEnd(s, i, <<"i", "n">>)
        emptyset(s, i) ==
            CommandEnd(s, i, <<"e", "m", "p", "t", "y", "s", "e", "t">>)
    IN  CASE k = 1 -> MatchAll(content, BlockFormulaEnd)
          [] k = 2 -> MatchAll(content, InlineFormulaEnd)
          [] k = 3 -> MatchAll(content, times)
          [] k = 4 -> MatchAll(content, to)
          [] k = 5 -> MatchAll(content, subseteq)
          [] k = 6 -> MatchAll(content, in)
          [] k = 7 -> MatchAll(content, emptyset)
          [] k = 8 -> MatchAll(content, MathbbEnd)

Coq == <<"c", "o", "q">>

\* lines 105-147; of the eight descriptions only the first holds "$$"
checkCodeBlocksForLatex(blocks) ==
    LET issues(block, k) ==
            IF block.language = Coq /\ k # 1 THEN <<>>
            ELSE IssuesFor(LatexMatches(block.content, k), "latex_in_code",
                           "error")
    IN  Flatten([b \in 1..Len(blocks) |->
            Flatten([k \in 1..8 |-> issues(blocks[b], k)])])

\* lines 152-190
checkFormulasForCitations(found) ==
    LET citation(s, i) == LinkEnd(s, i, 2)
        link(s, i) == LinkEnd(s, i, 1)
    IN  Flatten([f \in 1..Len(found) |->
            IssuesFor(MatchAll(found[f].content, citation),
                      "citation_in_formula", "error")
            \o IssuesFor(MatchAll(found[f].content, link),
                         "link_in_formula", "warning")])

\* lines 195-235
checkFormulaFormatting(markdown) ==
    LET lines == Split(markdown, "\n")
        setOf == <<"$", "$", "S", "e", "t", " ", "o", "f">>
        textInFormula(line) ==
            IF \E i \in 1..Len(line) : MatchAtCI(line, i, setOf)
            THEN <<Issue("text_in_formula", Prefix(line, 80), "error")>>
            ELSE <<>>
        unclosed(line) ==
            LET at == CHOOSE i \in 1..Len(line) : DollarsEnd(line, i) > 0
                beforeDollar == SubSeq(line, 1, at - 1)
                afterDollar == SubSeq(line, at + 2, Len(line))
            IN  IF /\ Len(MatchAll(line, DollarsEnd)) = 1
                   /\ Len(Trim(beforeDollar)) > 0
                   /\ Len(Trim(afterDollar)) > 0
                   /\ \A i \in 1..Len(line) : BlockFormulaEnd(line, i) = 0
                THEN <<Issue("unclosed_formula", Prefix(line, 80),
                             "warning")>>
                ELSE <<>>
    IN  Flatten([i \in 1..Len(lines) |->
            textInFormula(lines[i]) \o unclosed(lines[i])])

\* lines 240-281
checkMathInCodeBlocks(blocks) ==
    LET hasCartesianProduct(content) ==
            /\ Includes(content, <<"L">>)
            /\ Includes(content, <<"TIMES">>) \/ Includes(content, <<"x">>)
        issues(block) ==
            IF /\ block.language # Coq
               /\ hasCartesianProduct(block.content)
               /\ Includes(block.content, <<Bs, "t", "i", "m", "e", "s">>)
            THEN <<Issue("wrong_symbol", <<Bs, "t", "i", "m", "e", "s">>,
                         "error")>>
            ELSE <<>>
    IN  Flatten([b \in 1..Len(blocks) |-> issues(blocks[b])])

IsNotDigit(c) == c \notin Digits

\* parseInt of a string of digits
RECURSIVE ParseDigits(_)
ParseDigits(digits) ==
    IF digits = <<>> THEN 0
    ELSE 10 * ParseDigits(SubSeq(digits, 1, Len(digits) - 1))
         + (CHOOSE d \in 0..9 : DigitChar(d) = digits[Len(digits)])

FigureCaption == <<"!", "[", "F", "i", "g", "u", "r", "e", " ">>
FigureFile ==
    <<"]", "(", "i", "m", "a", "g", "e", "s", "/", "f", "i", "g", "u", "r",
      "e", "-">>

\* /!\[Figure (\d+)\]\(images\/figure-(\d+)\.(png|jpg)\)/ tried at index i:
\* <<end, caption number, file number>>, or <<0>>
FigureMatchAt(s, i) ==
    LET caption == i + Len(FigureCaption)
        bracket == FirstFrom(s, caption, IsNotDigit)
        file == bracket + Len(FigureFile)
        dot == FirstFrom(s, file, IsNotDigit)
    IN  IF /\ MatchAt(s, i, FigureCaption)
           /\ bracket > caption
           /\ MatchAt(s, bracket, FigureFile)
           /\ dot > file
           /\ \/ MatchAt(s, dot, <<".", "p", "n", "g", ")">>)
              \/ MatchAt(s, dot, <<".", "j", "p", "g", ")">>)
        THEN <<dot + 4, ParseDigits(SubSeq(s, caption, bracket - 1)),
               ParseDigits(SubSeq(s, file, dot - 1))>>
        ELSE <<0>>

expectedFigures == 13

\* lines 286-323
checkFigureReferences(markdown) ==
    LET end(s, i) == FigureMatchAt(s, i)[1]
        matches == MatchAll(markdown, end)
        numbers(k) == FigureMatchAt(matches[k], 1)
        foundFigures == {numbers(k)[3] : k \in 1..Len(matches)}
        mismatch(k) ==
            IF numbers(k)[2] # numbers(k)[3]
            THEN <<Issue("figure_mismatch", matches[k], "error")>>
            ELSE <<>>
        missingFigure(i) ==
            IF i \notin foundFigures
            THEN <<Issue("missing_figure", i, "error")>>
            ELSE <<>>
    IN  Flatten([k \in 1..Len(matches) |-> mismatch(k)])
        \o Flatten([i \in 1..expectedFigures |-> missingFigure(i)])

Errors(issues) ==
    SelectSeq(issues, LAMBDA issue : issue.severity = "error")

Warnings(issues) ==
    SelectSeq(issues, LAMBDA issue : issue.severity = "warning")

\* a verifier that also fails on warnings
SuccessWithoutWarnings(issues) ==
    Len(Errors(issues)) = 0 /\ Len(Warnings(issues)) = 0

\* lines 372-409: what verifyMathConversion returns
Success(issues) ==
    IF Len(Errors(issues)) = 0 /\ Len(Warnings(issues)) = 0 THEN TRUE
    ELSE Len(Errors(issues)) = 0

\* ---- inputs ----

\* String(n) for 0 <= n <= 99
NumberChars(n) ==
    IF n < 10 THEN <<DigitChar(n)>> ELSE PadStart2(n)

FigureLine(caption, file) ==
    FigureCaption \o NumberChars(caption) \o FigureFile \o NumberChars(file)
    \o <<".", "p", "n", "g", ")">>

Fence == <<"GRAVE", "GRAVE", "GRAVE">>

\* pieces of an article, each a list of lines: a code block with LaTeX,
\* one with Unicode, a Coq block with LaTeX commands, a Coq block with a
\* delimited formula followed by a formula with a citation and one with
\* text, a formula with a link, and a line with a single "$$"
MathFragments ==
    {<<Fence, <<"L", "x", Bs, "t", "i", "m", "e", "s">>, Fence>>,
     <<Fence, <<"L", " ", "TIMES", " ", "L">>, Fence>>,
     <<Fence \o Coq, <<Bs, "i", "n", " ", "$", "a", "$">>, Fence>>,
     <<Fence \o Coq, <<"$", "$", "a", "$", "$">>, Fence,
       <<"$", "$", "[", "[", "1", "]", "]", "(", "u", ")", "$", "$">>,
       <<"$", "$", "s", "e", "t", " ", "o", "f">>>>,
     <<(<<"$", "$", "a", "[", "b", "]", "(", "c", ")", "$", "$">>)>>,
     <<(<<"a", " ", "$", "$", " ", "b">>)>>}

\* the figure references of an article: all of them, the last one missing,
\* one with the caption of another figure
FigureSections ==
    LET all == [i \in 1..expectedFigures |-> FigureLine(i, i)]
    IN  {all, SubSeq(all, 1, expectedFigures - 1),
         [all EXCEPT ![2] = FigureLine(3, 2)]}

MaxFragments == 2

MathMarkdowns ==
    {JoinLines(Flatten(fragments) \o figures) :
        fragments \in SeqsUpTo(MathFragments, MaxFragments),
        figures \in FigureSections}

\* ---- the script ----

MathInit ==
    /\ mathFile \in {<<>>} \cup {<<text>> : text \in MathMarkdowns}
    /\ mathMarkdown = <<>>
    /\ mathCodeBlocks = <<>>
    /\ mathFormulas = <<>>
    /\ allIssues = <<>>
    /\ checksRun = <<>>
    /\ mathPc = "read"
    /\ mathExitCode = NotExited
    /\ VerifyIdle
    /\ NormIdle
    /\ CliIdle
    /\ ScriptIdle
    /\ RunnerIdle
    /\ DownloadIdle

\* lines 335-341: readFileSync throws when the file cannot be read and the
\* uncaught exception ends the process with code 1
ReadMarkdown ==
    /\ mathPc = "read"
    /\ IF mathFile = <<>>
       THEN /\ mathPc' = "exited"
            /\ mathExitCode' = 1
            /\ UNCHANGED <<mathMarkdown, mathCodeBlocks, mathFormulas>>
       ELSE /\ mathMarkdown' = mathFile[1]
            /\ mathCodeBlocks' = extractCodeBlocks(mathFile[1])
            /\ mathFormulas' = extractFormulaBlocks(mathFile[1])
            /\ mathPc' = "latex"
            /\ UNCHANGED mathExitCode
    /\ UNCHANGED <<mathFile, allIssues, checksRun, outsideMath>>

\* lines 349-351
CheckLatex ==
    /\ mathPc = "latex"
    /\ allIssues' = allIssues \o checkCodeBlocksForLatex(mathCodeBlocks)
    /\ checksRun' = Append(checksRun, "latex")
    /\ mathPc' = "citations"
    /\ UNCHANGED <<mathFile, mathMarkdown, mathCodeBlocks, mathFormulas,
                   mathExitCode, outsideMath>>

\* lines 353-355
CheckCitations ==
    /\ mathPc = "citations"
    /\ allIssues' = allIssues \o checkFormulasForCitations(mathFormulas)
    /\ checksRun' = Append(checksRun, "citations")
    /\ mathPc' = "formatting"
    /\ UNCHANGED <<mathFile, mathMarkdown, mathCodeBlocks, mathFormulas,
                   mathExitCode, outsideMath>>

\* lines 357-359
CheckFormatting ==
    /\ mathPc = "formatting"
    /\ allIssues' = allIssues \o checkFormulaFormatting(mathMarkdown)
    /\ checksRun' = Append(checksRun, "formatting")
    /\ mathPc' = "symbols"
    /\ UNCHANGED <<mathFile, mathMarkdown, mathCodeBlocks, mathFormulas,
                   mathExitCode, outsideMath>>

\* lines 361-363
CheckSymbols ==
    /\ mathPc = "symbols"
    /\ allIssues' = allIssues \o checkMathInCodeBlocks(mathCodeBlocks)
    /\ checksRun' = Append(checksRun, "symbols")
    /\ mathPc' = "figures"
    /\ UNCHANGED <<mathFile, mathMarkdown, mathCodeBlocks, mathFormulas,
                   mathExitCode, outsideMath>>

\* lines 365-367
CheckFigures ==
    /\ mathPc = "figures"
    /\ allIssues' = allIssues \o checkFigureReferences(mathMarkdown)
    /\ checksRun' = Append(checksRun, "figures")
    /\ mathPc' = "report"
    /\ UNCHANGED <<mathFile, mathMarkdown, mathCodeBlocks, mathFormulas,
                   mathExitCode, outsideMath>>

\* lines 372-413: the issues are reported and the process exits
MathExit ==
    /\ mathPc = "report"
    /\ mathExitCode' = IF Success(allIssues) THEN 0 ELSE 1
    /\ mathPc' = "exited"
    /\ UNCHANGED <<mathFile, mathMarkdown, mathCodeBlocks, mathFormulas,
                   allIssues, checksRun, outsideMath>>

MathNext ==
    \/ ReadMarkdown
    \/ CheckLatex
    \/ CheckCitations
    \/ CheckFormatting
    \/ CheckSymbols
    \/ CheckFigures
    \/ MathExit

MathSpec == MathInit /\ [][MathNext]_vars


(***************************************************************************)
(* The combined test runner (scripts/test-markdown-verification.mjs)       *)
(***************************************************************************)

\* the largest exit code a child is given here
MaxExitCode == 7

\* the argument of the 'close' listener: <<n>> for the exit code n, <<>> for
\* null (the child was ended by a signal)
ChildCodes == {<<>>} \cup {<<n>> : n \in 0..MaxExitCode}

\* code === 0
ExitedWithZero(code) == code = <<0>>

ChildEvent(name, event, code) ==
    [child |-> name, event |-> event, code |-> code]

\* spawn('node', [scriptPath], ...)
Spawned(name) == ChildEvent(name, "spawn", <<>>)

SuiteExitCodeEither(first, second) == IF first \/ second THEN 0 ELSE 1

\* if (playwrightResult && puppeteerResult) process.exit(0)
\* else process.exit(1)
SuiteExitCode(first, second) == IF first /\ second THEN 0 ELSE 1

RunnerInit ==
    /\ runnerPc = "start"
    /\ childEvents = <<>>
    /\ playwrightResult = <<>>
    /\ puppeteerResult = <<>>
    /\ runnerExitCode = NotExited
    /\ VerifyIdle
    /\ NormIdle
    /\ CliIdle
    /\ ScriptIdle
    /\ MathIdle
    /\ DownloadIdle

\* runAllTests reaches runTest(playwrightPath, 'Playwright')
RunPlaywright ==
    /\ runnerPc = "start"
    /\ childEvents' = Append(childEvents, Spawned("Playwright"))
    /\ runnerPc' = "awaitPlaywright"
    /\ UNCHANGED <<playwrightResult, puppeteerResult, runnerExitCode>>
    /\ UNCHANGED outsideRunner

\* the 'close' listener of the Playwright child resolves the promise
PlaywrightClose ==
    /\ runnerPc = "awaitPlaywright"
    /\ \E code \in ChildCodes :
        /\ childEvents' =
               Append(childEvents, ChildEvent("Playwright", "close", code))
        /\ playwrightResult' = <<ExitedWithZero(code)>>
    /\ runnerPc' = "runPuppeteer"
    /\ UNCHANGED <<puppeteerResult, runnerExitCode>>
    /\ UNCHANGED outsideRunner

\* the child could not be spawned: the 'error' listener rejects, the await
\* throws and the catch block leaves with process.exit(1); the 'close' event
\* that follows finds the promise settled
PlaywrightError ==
    /\ runnerPc = "awaitPlaywright"
    /\ childEvents' =
           Append(childEvents, ChildEvent("Playwright", "error", <<>>))
    /\ runnerExitCode' = 1
    /\ runnerPc' = "exited"
    /\ UNCHANGED <<playwrightResult, puppeteerResult>>
    /\ UNCHANGED outsideRunner

\* runAllTests reaches runTest(puppeteerPath, 'Puppeteer')
RunPuppeteer ==
    /\ runnerPc = "runPuppeteer"
    /\ childEvents' = Append(childEvents, Spawned("Puppeteer"))
    /\ runnerPc' = "awaitPuppeteer"
    /\ UNCHANGED <<playwrightResult, puppeteerResult, runnerExitCode>>
    /\ UNCHANGED outsideRunner

PuppeteerClose ==
    /\ runnerPc = "awaitPuppeteer"
    /\ \E code \in ChildCodes :
        /\ childEvents' =
               Append(childEvents, ChildEvent("Puppeteer", "close", code))
        /\ puppeteerResult' = <<ExitedWithZero(code)>>
    /\ runnerPc' = "results"
    /\ UNCHANGED <<playwrightResult, runnerExitCode>>
    /\ UNCHANGED outsideRunner

PuppeteerError ==
    /\ runnerPc = "awaitPuppeteer"
    /\ childEvents' =
           Append(childEvents, ChildEvent("Puppeteer", "error", <<>>))
    /\ runnerExitCode' = 1
    /\ runnerPc' = "exited"
    /\ UNCHANGED <<playwrightResult, puppeteerResult>>
    /\ UNCHANGED outsideRunner

\* the final results and process.exit
RunnerExit ==
    /\ runnerPc = "results"
    /\ runnerExitCode' = SuiteExitCode(playwrightResult[1], puppeteerResult[1])
    /\ runnerPc' = "exited"
    /\ UNCHANGED <<childEvents, playwrightResult, puppeteerResult>>
    /\ UNCHANGED outsideRunner

RunnerNext ==
    \/ RunPlaywright
    \/ PlaywrightClose
    \/ PlaywrightError
    \/ RunPuppeteer
    \/ PuppeteerClose
    \/ PuppeteerError
    \/ RunnerExit

RunnerSpec == RunnerInit /\ [][RunnerNext]_vars


(***************************************************************************)
(* downloadFile (experiments/extract-images.mjs)                           *)
(***************************************************************************)

\* function downloadFile(url, filepath, retries = 3)
DefaultRetries == 3

\* setTimeout(() => makeRequest(attemptsLeft - 1), 1000)
RetryDelay == 1000

\* request.setTimeout(30000, ...)
RequestTimeout == 30000

\* the longest time, in milliseconds, a request waits for its answer here
MaxLatency == 200

\* the statuses the URL answers with: neither 200 nor a redirect
Statuses == {404, 503}

\* new Error(`HTTP ${response.statusCode}`)
HttpError(status) == <<"HTTP", status>>

\* the errors the 'error' event of a request carries
ConnectionErrors == {<<"ECONNREFUSED">>}

\* new Error('Request timeout')
TimeoutError == <<"Request timeout">>

\* protocol.get(url, ...) inside makeRequest(attemptsLeft)
NewRequest(attemptsLeft) ==
    [sentAt |-> now, attemptsLeft |-> attemptsLeft, state |-> "sent",
     error |-> <<>>, idleFrom |-> 0]

\* reject(err): a promise is settled once
Reject(err) ==
    IF promise.state = "pending"
    THEN [state |-> "rejected", error |-> err, after |-> Len(requests)]
    ELSE promise

\* if (attemptsLeft > 1)
RetryAllowed(attemptsLeft) == attemptsLeft > 1

\* the three listeners of a request end the same way:
\* if (attemptsLeft > 1) setTimeout(() => makeRequest(attemptsLeft - 1), 1000)
\* else reject(err)
TimersAfter(i, listener) ==
    IF RetryAllowed(requests[i].attemptsLeft)
    THEN timers \cup {[due |-> now + RetryDelay,
                       attemptsLeft |-> requests[i].attemptsLeft - 1,
                       by |-> i, on |-> listener]}
    ELSE timers

PromiseAfter(i, err) ==
    IF RetryAllowed(requests[i].attemptsLeft) THEN promise ELSE Reject(err)

Sent == {i \in 1..Len(requests) : requests[i].state = "sent"}

\* the requests whose response arrived and whose socket is still open
Open == {i \in 1..Len(requests) : requests[i].state = "open"}

\* the moments something is due
Deadlines ==
    {t.due : t \in timers}
        \cup {requests[i].idleFrom + RequestTimeout : i \in Open}
        \cup {requests[i].sentAt + MaxLatency : i \in Sent}

Earliest(moments) == CHOOSE m \in moments : \A other \in moments : m <= other

DownloadInit ==
    /\ retries \in 1..DefaultRetries
    /\ now = 0
    /\ requests = <<>>
    /\ timers = {}
    /\ promise = [state |-> "pending", error |-> <<>>, after |-> 0]
    /\ VerifyIdle
    /\ NormIdle
    /\ CliIdle
    /\ ScriptIdle
    /\ MathIdle
    /\ RunnerIdle

\* makeRequest(retries), the last statement of the executor
FirstRequest ==
    /\ promise.state = "pending"
    /\ requests = <<>>
    /\ requests' = <<NewRequest(retries)>>
    /\ UNCHANGED <<retries, now, timers, promise>>
    /\ UNCHANGED outsideDownload

\* the response callback with a status that is neither a redirect nor 200;
\* the response is not read, and the server either closes the connection or
\* keeps it open
Response ==
    /\ \E i \in Sent, status \in Statuses, keptOpen \in BOOLEAN :
        /\ requests' =
               [requests EXCEPT ![i] =
                   [@ EXCEPT !.state = IF keptOpen THEN "open" ELSE "closed",
                             !.error = HttpError(status),
                             !.idleFrom = now]]
        /\ timers' = TimersAfter(i, "response")
        /\ promise' = PromiseAfter(i, HttpError(status))
    /\ UNCHANGED <<retries, now>>
    /\ UNCHANGED outsideDownload

\* request.on('error', ...)
ConnectionError ==
    /\ \E i \in Sent, err \in ConnectionErrors :
        /\ requests' =
               [requests EXCEPT ![i] =
                   [@ EXCEPT !.state = "failed", !.error = err]]
        /\ timers' = TimersAfter(i, "error")
        /\ promise' = PromiseAfter(i, err)
    /\ UNCHANGED <<retries, now>>
    /\ UNCHANGED outsideDownload

\* request.setTimeout(30000, ...): the socket of the request has been idle
\* for 30 seconds
SocketTimeout ==
    /\ \E i \in Open :
        /\ requests[i].idleFrom + RequestTimeout = now
        /\ requests' =
               [requests EXCEPT ![i] = [@ EXCEPT !.state = "destroyed"]]
        /\ timers' = TimersAfter(i, "timeout")
        /\ promise' = PromiseAfter(i, TimeoutError)
    /\ UNCHANGED <<retries, now>>
    /\ UNCHANGED outsideDownload

\* () => makeRequest(attemptsLeft - 1), called by setTimeout
RetryRequest ==
    /\ \E t \in timers :
        /\ t.due = now
        /\ requests' = Append(requests, NewRequest(t.attemptsLeft))
        /\ timers' = timers \ {t}
    /\ UNCHANGED <<retries, now, promise>>
    /\ UNCHANGED outsideDownload

\* time passes until something is due
Tick ==
    /\ Deadlines # {}
    /\ \A moment \in Deadlines : moment > now
    /\ now' = Earliest(Deadlines)
    /\ UNCHANGED <<retries, requests, timers, promise>>
    /\ UNCHANGED outsideDownload

DownloadNext ==
    \/ FirstRequest
    \/ Response
    \/ ConnectionError
    \/ SocketTimeout
    \/ RetryRequest
    \/ Tick

DownloadSpec == DownloadInit /\ [][DownloadNext]_vars


(***************************************************************************)
(* Claims                                                                  *)
(***************************************************************************)

Done == pc = "done"

\* no item is recorded missing in any category
NothingMissing(m) ==
    /\ ~m.title
    /\ m.images = 0
    /\ m.headings = <<>>
    /\ m.paragraphs = <<>>
    /\ m.codeBlocks = <<>>
    /\ m.formulas = <<>>
    /\ m.listItems = <<>>

\* C1: in every returned report passRate is passedChecks / totalChecks (and
\* 0 when no check ran, where the quotient does not exist), and success is
\* true exactly when nothing is recorded missing in any category or
\* passRate >= 0.85.
C1_Verdict ==
    Done =>
        /\ report.passRate.num * report.totalChecks
               = report.passedChecks * report.passRate.den
        /\ report.passRate.den > 0
        /\ report.totalChecks = 0 => report.passRate.num = 0
        /\ report.success <=>
               \/ NothingMissing(report.missing)
               \/ /\ report.totalChecks > 0
                  /\ 100 * report.passedChecks >= 85 * report.totalChecks

\* C1 witness: a report with missing items whose pass rate is exactly 0.85
\* (17 of 20) and which is a success, ...
C1_Witness ==
    /\ Done
    /\ ~NothingMissing(report.missing)
    /\ report.totalChecks = 20
    /\ report.passedChecks = 17
    /\ report.success

\* C2: normalizing a normalized string changes nothing.
C2_Idempotent ==
    Len(nOutput) >= 2 => nOutput[2] = nOutput[1]

\* the previews recorded for the items of a list that are not Present
MissingPreviews(items, Present(_)) ==
    LET absent(item) == ~Present(item)
        lost == SelectSeq(items, absent)
    IN  [i \in 1..Len(lost) |-> Preview(lost[i])]

\* the number of qualifying words of a normalized text found in the
\* normalized markdown
WordsFound(normalized) ==
    Cardinality({i \in 1..Len(QualifyingWords(normalized)) :
                    Includes(normalizedMarkdown,
                             QualifyingWords(normalized)[i])})

\* the presence test as C3 states it: the ratio of the qualifying words
\* found is at least 0.6, or the first prefixLength characters occur
C3_Present(item, prefixLength) ==
    LET normalized == normalizeText(item)
        words == QualifyingWords(normalized)
    IN  \/ /\ Len(words) > 0
           /\ 10 * WordsFound(normalized) >= 6 * Len(words)
        \/ Includes(normalizedMarkdown, Prefix(normalized, prefixLength))

C3_ParagraphPresent(item) == C3_Present(item, ParagraphSubstringLength)
C3_ListItemPresent(item) == C3_Present(item, ListItemSubstringLength)

\* C3: a sampled paragraph (list item) is reported present if and only if
\* at least 0.6 of its words longer than 2 characters occur in the
\* normalized markdown or the first 50 (40) characters of its normalized
\* text occur there: the report lists as missing exactly the sampled items
\* that fail this test.
C3_TieredMatch ==
    Done =>
        /\ report.missing.paragraphs =
               MissingPreviews(paragraphsToCheck(webContent.paragraphs),
                               C3_ParagraphPresent)
        /\ report.missing.listItems =
               MissingPreviews(listItemsToCheck(webContent.listItems),
                               C3_ListItemPresent)

\* the significant lines of a block as C4 states them
C4_Lines(code) ==
    LET raw == Split(code, "\n")
        kept == {i \in 1..Len(raw) :
                    /\ Len(Trim(raw[i])) >= 4
                    /\ \E j \in 1..Len(Trim(raw[i])) :
                           Trim(raw[i])[j] \notin BracketChars}
    IN  [i \in kept |-> Trim(raw[i])]

\* the presence test as C4 states it, against the code-normalized markdown
C4_Present(code, candidate) ==
    LET lines == C4_Lines(code)
        matching == {i \in DOMAIN lines :
                        Includes(candidate, normalizeCode(lines[i]))}
    IN  \/ 10 * Cardinality(matching) >= 6 * Cardinality(DOMAIN lines)
        \/ Includes(candidate, normalizeCode(code))

C4_CodeBlocksStep ==
    pc = "codeBlocks" =>
        LET present(code) == C4_Present(code, normalizedMarkdownForCode')
            lost == MissingPreviews(webContent.codeBlocks, present)
        IN  /\ totalChecks' = totalChecks + Len(webContent.codeBlocks)
            /\ passedChecks' =
                   passedChecks + Len(webContent.codeBlocks) - Len(lost)
            /\ missing' = [missing EXCEPT !.codeBlocks = lost]

C5_TitleStep ==
    pc = "title" =>
        IF webContent.title # <<>>
        THEN LET found == Includes(normalizedMarkdown,
                                   normalizeText(webContent.title))
             IN  /\ totalChecks' = totalChecks + 1
                 /\ passedChecks' = passedChecks + (IF found THEN 1 ELSE 0)
                 /\ missing' = [missing EXCEPT !.title = ~found]
        ELSE UNCHANGED <<totalChecks, passedChecks, missing>>

C5_HeadingsStep ==
    pc = "headings" =>
        LET absent(h) == ~Includes(normalizedMarkdown, normalizeText(h.text))
            lost == SelectSeq(webContent.headings, absent)
        IN  /\ totalChecks' = totalChecks + Len(webContent.headings)
            /\ passedChecks' =
                   passedChecks + Len(webContent.headings) - Len(lost)
            /\ missing' =
                   [missing EXCEPT
                       !.headings = [i \in 1..Len(lost) |-> lost[i].text]]

\* C5: the title gets exactly one check and every heading of the reference
\* gets exactly one check; the check passes if and only if the normalized
\* title or heading text is a substring of the normalized markdown; a title
\* that fails sets the missing-title flag and each heading that fails is
\* recorded in the missing-headings list.
C5_TitleAndHeadings == [][C5_TitleStep /\ C5_HeadingsStep]_vars

\* C5 witness: a title found after normalization and a heading not found.
C5_Witness ==
    /\ pc = "paragraphs"
    /\ webContent.title = TitlePresent
    /\ webContent.headings = <<Heading(HeadingAltered)>>
    /\ totalChecks = 2
    /\ passedChecks = 1
    /\ ~missing.title
    /\ missing.headings = <<HeadingAltered>>

\* the distinct figure references of the markdown
DistinctFigures == {figureMatches(markdownText)[i] :
                       i \in 1..Len(figureMatches(markdownText))}

\* C6: when the article declares N > 0 expected figures, the figure check
\* passes if and only if the markdown holds at least N distinct figure
\* references, and when it fails the missing-image count is N minus the
\* number of distinct figure references found.
C6_DistinctFigures ==
    (Done /\ article.hasLocalImages /\ article.expectedFigures > 0) =>
        LET found == Cardinality(DistinctFigures)
        IN  IF found >= article.expectedFigures
            THEN report.missing.images = 0
            ELSE report.missing.images = article.expectedFigures - found

\* seq with the item at position k replaced, removed, or with an item put
\* in front of position k
ReplaceAt(seq, k, item) == [seq EXCEPT ![k] = item]
RemoveAt(seq, k) == SubSeq(seq, 1, k - 1) \o SubSeq(seq, k + 1, Len(seq))
InsertAt(seq, k, item) ==
    SubSeq(seq, 1, k - 1) \o <<item>> \o SubSeq(seq, k, Len(seq))

\* the report of the run on the same article and markdown with other
\* paragraphs, or other list items, in the reference
ReportWithParagraphs(paragraphs) ==
    verifyWith(article, [webContent EXCEPT !.paragraphs = paragraphs],
               markdownText, normalizedMarkdown, normalizedMarkdownForCode)

ReportWithListItems(listItems) ==
    verifyWith(article, [webContent EXCEPT !.listItems = listItems],
               markdownText, normalizedMarkdown, normalizedMarkdownForCode)

\* what the paragraphs outside the first five and the last five may become
C7_Others == {ParFull, ParAbsent, ParShortNoWords}

\* the lists of at least 10 paragraphs that differ from `paragraphs` in one
\* paragraph outside the first five and the last five: one replaced, one
\* removed, one added
C7_Variants(paragraphs) ==
    LET n == Len(paragraphs)
        middle == (ParagraphSampleSize + 1)..(n - ParagraphSampleSize)
    IN  {ReplaceAt(paragraphs, k, q) : k \in middle, q \in C7_Others}
            \cup {RemoveAt(paragraphs, k) :
                     k \in IF n > 10 THEN middle ELSE {}}
            \cup {InsertAt(paragraphs, ParagraphSampleSize + 1, q) :
                     q \in C7_Others}

C7_ParagraphsStep ==
    (pc = "paragraphs" /\ Len(webContent.paragraphs) >= 10) =>
        LET n == Len(webContent.paragraphs)
            sample == [i \in 1..10 |->
                          IF i <= 5 THEN webContent.paragraphs[i]
                          ELSE webContent.paragraphs[n - 10 + i]]
            present(paragraph) ==
                ParagraphMatches(paragraph, normalizedMarkdown)
            lost == MissingPreviews(sample, present)
        IN  /\ totalChecks' = totalChecks + 10
            /\ passedChecks' = passedChecks + 10 - Len(lost)
            /\ missing' = [missing EXCEPT !.paragraphs = lost]

C7_ReturnStep ==
    (pc = "results" /\ Len(webContent.paragraphs) >= 10) =>
        \A others \in C7_Variants(webContent.paragraphs) :
            report' = ReportWithParagraphs(others)

\* C7: for a reference with at least 10 paragraphs the paragraph section
\* makes exactly 10 checks, on the first 5 and the last 5 paragraphs, and
\* the report returned is the report of every reference that differs only
\* in paragraphs outside that sample (replaced, removed or added).
C7_ParagraphSample == [][C7_ParagraphsStep /\ C7_ReturnStep]_vars

\* C7 witness: 11 paragraphs, the sixth absent from the markdown, ten
\* checks made and all ten passed.
C7_Witness ==
    /\ Done
    /\ Len(webContent.paragraphs) = 11
    /\ webContent.paragraphs[6] = ParAbsent
    /\ report.totalChecks = 10
    /\ report.passedChecks = 10
    /\ report.missing.paragraphs = <<>>

\* what a list item after the tenth may become
C8_Others == {ItemFull, ItemAbsent, ItemShortNoWords}

\* the lists that differ from `listItems` after the tenth item: one item
\* replaced, the last removed, one added
C8_Variants(listItems) ==
    LET n == Len(listItems)
    IN  {ReplaceAt(listItems, k, q) :
             k \in (ListItemSampleSize + 1)..n, q \in C8_Others}
            \cup (IF n > ListItemSampleSize
                  THEN {RemoveAt(listItems, n)} ELSE {})
            \cup {Append(listItems, q) :
                     q \in IF n >= ListItemSampleSize THEN C8_Others ELSE {}}

C8_ListItemsStep ==
    pc = "listItems" =>
        LET n == Len(webContent.listItems)
            checked == IF n < 10 THEN n ELSE 10
            present(item) == ListItemMatches(item, normalizedMarkdown)
            lost == MissingPreviews(SubSeq(webContent.listItems, 1, checked),
                                    present)
        IN  /\ totalChecks' = totalChecks + checked
            /\ passedChecks' = passedChecks + checked - Len(lost)
            /\ missing' = [missing EXCEPT !.listItems = lost]

C8_ReturnStep ==
    pc = "results" =>
        \A others \in C8_Variants(webContent.listItems) :
            report' = ReportWithListItems(others)

\* C8: the list item section makes min(number of list items, 10) checks, on
\* the first items, and the report returned is the report of every
\* reference that differs only after the tenth list item (an item changed,
\* added or removed).
C8_ListItemSample == [][C8_ListItemsStep /\ C8_ReturnStep]_vars

\* C8 witness: 11 list items, the eleventh absent from the markdown, ten
\* checks made and none recorded missing.
C8_Witness ==
    /\ Done
    /\ Len(webContent.listItems) = 11
    /\ webContent.listItems[11] = ItemAbsent
    /\ webContent.paragraphs = <<>>
    /\ report.totalChecks = 10
    /\ report.missing.listItems = <<>>

\* the presence test as C9 states it for an item without a word longer than
\* 2 characters; the test of the code for every other item
C9_Present(item, minLength, prefixLength, Matches(_, _)) ==
    LET normalized == normalizeText(item)
    IN  IF QualifyingWords(normalized) = <<>>
        THEN IF Len(normalized) < minLength
             THEN Includes(normalizedMarkdown, normalized)
             ELSE Includes(normalizedMarkdown,
                           Prefix(normalized, prefixLength))
        ELSE Matches(item, normalizedMarkdown)

C9_ParagraphPresent(item) ==
    C9_Present(item, ParagraphMinSubstringLength, ParagraphSubstringLength,
               ParagraphMatches)

C9_ListItemPresent(item) ==
    C9_Present(item, ListItemMinSubstringLength, ListItemSubstringLength,
               ListItemMatches)

\* C9: a sampled paragraph or list item without a word longer than 2
\* characters is decided by the substring fallback alone, and when it is
\* shorter than the minimum length of the fallback (20, 15) it is reported
\* present if and only if its whole normalized text is in the normalized
\* markdown.
C9_Wordless ==
    Done =>
        /\ report.missing.paragraphs =
               MissingPreviews(paragraphsToCheck(webContent.paragraphs),
                               C9_ParagraphPresent)
        /\ report.missing.listItems =
               MissingPreviews(listItemsToCheck(webContent.listItems),
                               C9_ListItemPresent)

\* C10: verification returns a report and never throws when the reference
\* lacks some of its fields, and the report is the one of the reference
\* with an empty sequence for each absent field.
C10_AbsentFields ==
    /\ pc # "threw"
    /\ Done => report = verifyWith(article, Completed(webContent),
                                   markdownText, normalizedMarkdown,
                                   normalizedMarkdownForCode)

Normalized == Len(nOutput) >= 1

\* the state the first application of normalizeText leads to
JustNormalized == Len(nOutput) = 1 /\ nCodeOutput = <<>>

\* the glyphs and their markup-escape forms
EquivalenceTable ==
    {<<"TIMES", <<Bs, "t", "i", "m", "e", "s">>>>,
     <<"RARROW", <<Bs, "t", "o">>>>,
     <<"SUBSETEQ", <<Bs, "s", "u", "b", "s", "e", "t", "e", "q">>>>,
     <<"ELEMENT", <<Bs, "i", "n">>>>,
     <<"EMPTYSET", <<Bs, "e", "m", "p", "t", "y", "s", "e", "t">>>>,
     <<"SUP2", <<"^", "2">>>>,
     <<"SUPN", <<"^", "n">>>>}

\* s with the character at position i replaced by a string
Rewritten(s, i, string) ==
    SubSeq(s, 1, i - 1) \o string \o SubSeq(s, i + 1, Len(s))

\* C11: for each glyph of the equivalence table, replacing one occurrence of
\* the glyph by its markup-escape form, anywhere in the string, leaves the
\* result of normalizeText unchanged.
C11_GlyphEscape ==
    Normalized =>
        \A pair \in EquivalenceTable :
            \A i \in 1..Len(nInput) :
                nInput[i] = pair[1] =>
                    normalizeText(Rewritten(nInput, i, pair[2])) = nOutput[1]

\* C11 witness: a string of three glyphs, normalized.
C11_Witness ==
    /\ nInput = <<"TIMES", "ELEMENT", "SUP2">>
    /\ Normalized
    /\ nOutput[1] = <<"x", "ELEMENT", "SUP2">>

TypographicQuotes == {"LSQUO", "RSQUO", "LDQUO", "RDQUO"}

\* the string written with straight quotes
Straightened(s) ==
    [i \in 1..Len(s) |->
        IF s[i] \in {"LSQUO", "RSQUO"} THEN "'"
        ELSE IF s[i] \in {"LDQUO", "RDQUO"} THEN "\""
        ELSE s[i]]

\* C12: normalizeText maps the typographic single quotes to the ASCII
\* apostrophe and the typographic double quotes to the ASCII double quote:
\* its result holds no typographic quote and is the result for the same
\* string written with straight quotes.
C12_CurlyQuotes ==
    Normalized =>
        /\ \A i \in 1..Len(nOutput[1]) :
               nOutput[1][i] \notin TypographicQuotes
        /\ nOutput[1] = normalizeText(Straightened(nInput))

\* the quote characters of a string, in order
QuotesOf(s) ==
    LET quote(c) == c \in TypographicQuotes \cup {"'", "\""}
    IN  SelectSeq(s, quote)

\* C13: normalizeCode differs from normalizeText only by leaving quote
\* characters untouched: on a string without typographic quotes the two
\* give the same result, and normalizeCode never alters a quote character.
C13_CodeLikeText ==
    /\ (Normalized /\ nCodeOutput # <<>> /\ QuotesOf(nInput) \in Seq({"'", "\""}))
           => nCodeOutput[1] = nOutput[1]
    /\ nCodeOutput # <<>> => QuotesOf(nCodeOutput[1]) = QuotesOf(nInput)

\* the whitespace characters C14 names
C14_WhiteSpace ==
    {" ", "\t", "\n", "NBSP", "ENQUAD", "EMQUAD", "ENSP", "EMSP", "EMSP3",
     "EMSP4", "EMSP6", "FIGSP", "PUNCSP", "THINSP", "HAIRSP", "LSEP", "PSEP"}

\* the tokens of s with one ASCII space for each run of whitespace between
\* two of them
C14_Canonical(s) ==
    LET ws(i) == s[i] \in C14_WhiteSpace
        keep(i) == \/ ~ws(i)
                   \/ /\ i > 1
                      /\ ~ws(i - 1)
                      /\ \E j \in (i + 1)..Len(s) : ~ws(j)
        kept == SelectSeq([i \in 1..Len(s) |-> i], keep)
    IN  [k \in 1..Len(kept) |-> IF ws(kept[k]) THEN " " ELSE s[kept[k]]]

\* C14: normalizeText replaces every maximal run of whitespace characters by
\* one ASCII space (a string of letters and whitespace becomes its words
\* with one space between them), and the result does not change when a
\* whitespace character of the string is replaced by one of another kind
\* or when a run is made longer.
C14_WhiteSpaceRuns ==
    JustNormalized =>
        /\ (\A i \in 1..Len(nInput) :
                nInput[i] \in C14_WhiteSpace \cup {"a", "b"})
               => nOutput[1] = C14_Canonical(nInput)
        /\ \A i \in 1..Len(nInput) :
               nInput[i] \in C14_WhiteSpace =>
                   /\ \A w \in C14_WhiteSpace :
                          normalizeText(Rewritten(nInput, i, <<w>>))
                              = nOutput[1]
                   /\ normalizeText(
                          Rewritten(nInput, i, <<nInput[i], nInput[i]>>))
                          = nOutput[1]

\* C14 witness: a, U+00A0, U+2003, space, b normalized to "a b".
C14_Witness ==
    /\ nInput = <<"a", "NBSP", "EMSP", " ", "b">>
    /\ JustNormalized
    /\ nOutput[1] = <<"a", " ", "b">>

\* C15: a report that records no missing item in any category has every
\* performed check passed: passedChecks = totalChecks, and passRate is 1
\* when at least one check ran.
C15_NothingMissingAllPassed ==
    (Done /\ NothingMissing(report.missing)) =>
        /\ report.passedChecks = report.totalChecks
        /\ report.totalChecks > 0 =>
               report.passRate.num = report.passRate.den

C16_ImagesStep ==
    (pc = "images" /\ article.expectedFigures = 0) =>
        UNCHANGED <<totalChecks, passedChecks, missing>>

\* C16: an image check is performed only when the article declares an
\* expected figure count greater than 0: for an article that declares none
\* the image section adds no check and records nothing.
C16_FiguresOnlyWhenDeclared == [][C16_ImagesStep]_vars

\* the bounds of the counters of the report
C17_Counters ==
    Done =>
        /\ 0 <= report.passedChecks
        /\ report.passedChecks <= report.totalChecks
        /\ 0 <= report.passRate.num
        /\ report.passRate.num <= report.passRate.den
        /\ report.passRate.den > 0

\* the sampled paragraphs, each once, in the order of the reference
C17_SampledParagraphs ==
    LET n == Len(webContent.paragraphs)
        sampled(i) == i <= 5 \/ i > n - 5
        at == SelectSeq([i \in 1..n |-> i], sampled)
    IN  [k \in 1..Len(at) |-> webContent.paragraphs[at[k]]]

\* C17: in every returned report 0 <= passedChecks <= totalChecks and
\* passRate is in [0,1], also when no check ran, and each missing list holds
\* the failing items of its category, each once, in the order of the
\* reference.
C17_ReportShape ==
    /\ C17_Counters
    /\ Done =>
        LET headingAbsent(h) ==
                ~Includes(normalizedMarkdown, normalizeText(h.text))
            lostHeadings == SelectSeq(webContent.headings, headingAbsent)
            paragraphPresent(p) == ParagraphMatches(p, normalizedMarkdown)
            codePresent(c) == CodeBlockMatches(c, normalizedMarkdownForCode)
            itemPresent(l) == ListItemMatches(l, normalizedMarkdown)
        IN  /\ report.missing.headings =
                   [i \in 1..Len(lostHeadings) |-> lostHeadings[i].text]
            /\ report.missing.paragraphs =
                   MissingPreviews(C17_SampledParagraphs, paragraphPresent)
            /\ report.missing.codeBlocks =
                   MissingPreviews(webContent.codeBlocks, codePresent)
            /\ report.missing.listItems =
                   MissingPreviews(
                       SubSeq(webContent.listItems, 1,
                              IF Len(webContent.listItems) < 10
                              THEN Len(webContent.listItems) ELSE 10),
                       itemPresent)

\* the versions the command line was asked to verify
Requested ==
    IF cliOptions.all THEN DOMAIN ARTICLES
    ELSE IF cliOptions.version = "none" THEN {}
    ELSE {cliOptions.version}

\* C18: the command line exits with code 0 if and only if the verification
\* of every selected article returned success = true, and with a non-zero
\* code otherwise; every selected article is verified, also after an
\* article that failed or threw.
C18_ExitCode ==
    cliPc = "exited" =>
        /\ exitCode = 0 <=>
               \A version \in Requested :
                   /\ Configured(version)
                   /\ cliOutcomes[version] = "success"
        /\ exitCode \in {0, 1}
        /\ (\A version \in Requested : Configured(version)) =>
               /\ Len(cliResults) = Cardinality(Requested)
               /\ \A i \in 1..Len(cliResults) :
                      cliResults[i].success <=>
                          cliOutcomes[cliResults[i].article] = "success"

\* C18 witness: all articles selected, the first throws, the second fails,
\* the third succeeds: three results and exit code 1.
C18_Witness ==
    /\ cliPc = "exited"
    /\ cliOptions.all
    /\ cliOutcomes["0.0.0"] = "threw"
    /\ cliOutcomes["0.0.1"] = "failure"
    /\ cliOutcomes["0.0.2"] = "success"
    /\ Len(cliResults) = 3
    /\ cliResults[3].success
    /\ exitCode = 1

ScriptDone == sPc = "done"

\* C19: with --dry-run, processArticle and downloadArticle make no change
\* to the filesystem: at every point of a dry run the directories and the
\* files are those the run started with (no directory is created, no image
\* downloaded, no markdown or metadata file written).
C19_DryRunChangesNothing ==
    dryRun => fs = fsInitial

\* the part of C19 that holds: a dry run writes no file
C19_DryRunWritesNoFile ==
    dryRun =>
        /\ fs.markdown = fsInitial.markdown
        /\ fs.images = fsInitial.images
        /\ fs.metadata = fsInitial.metadata

MathExited == mathPc = "exited"

FiveChecks == <<"latex", "citations", "formatting", "symbols", "figures">>

\* C20: the math conversion verifier runs all five checks on the markdown
\* it has read, and it exits with code 0 if and only if none of them
\* reported an issue of severity 'error'; warnings alone give exit code 0.
C20_ExitCode ==
    MathExited =>
        /\ mathFile # <<>> =>
              /\ checksRun = FiveChecks
              /\ allIssues =
                     checkCodeBlocksForLatex(extractCodeBlocks(mathFile[1]))
                     \o checkFormulasForCitations(
                            extractFormulaBlocks(mathFile[1]))
                     \o checkFormulaFormatting(mathFile[1])
                     \o checkMathInCodeBlocks(extractCodeBlocks(mathFile[1]))
                     \o checkFigureReferences(mathFile[1])
        /\ mathExitCode \in {0, 1}
        /\ mathExitCode = 0 <=>
              /\ checksRun = FiveChecks
              /\ \A k \in 1..Len(allIssues) :
                     allIssues[k].severity # "error"

\* C20 witness: the verifier has exited with code 0 after all five checks
\* although a check reported a warning
C20_Witness ==
    /\ MathExited
    /\ mathExitCode = 0
    /\ checksRun = FiveChecks
    /\ \E k \in 1..Len(allIssues) : allIssues[k].severity = "warning"

C25_ParagraphsStep ==
    (pc = "paragraphs" /\ Has(webContent, "paragraphs")) =>
        LET n == Len(webContent.paragraphs)
            absent == {i \in 1..n :
                          ~ParagraphMatches(webContent.paragraphs[i],
                                            normalizedMarkdown)}
            checks == totalChecks' - totalChecks
            failed == checks - (passedChecks' - passedChecks)
        IN  /\ checks = IF n < 10 THEN n ELSE 10
            /\ failed <= Cardinality(absent)
            /\ Len(missing'.paragraphs) <= Cardinality(absent)

\* C25: no paragraph is checked twice in one verification run: for a
\* reference with n paragraphs the paragraph section makes min(n, 10)
\* checks, and the failed checks and the entries of the missing-paragraphs
\* list are at most one for each absent paragraph.
C25_NoParagraphTwice == [][C25_ParagraphsStep]_vars

\* the part of C25 that holds: with at least 10 paragraphs, or none, the
\* sample holds no paragraph twice
C25_LongReference ==
    [][Len(webContent.paragraphs) \in {0} \cup (10..MaxParagraphs)
          => C25_ParagraphsStep]_vars

\* C26: the output of normalizeText is whitespace-canonical for every
\* input: it never holds two consecutive spaces, never starts or ends with
\* a space, and holds no whitespace or invisible space-like character other
\* than the ASCII space.
C26_WhiteSpaceCanonical ==
    Normalized =>
        LET out == nOutput[1]
        IN  /\ \A i \in 1..(Len(out) - 1) : ~(out[i] = " " /\ out[i + 1] = " ")
            /\ out # <<>> => out[1] # " " /\ out[Len(out)] # " "
            /\ \A i \in 1..Len(out) :
                   out[i] \notin (JsWhiteSpace \cup UnicodeSpaceRange) \ {" "}

\* a finished processArticle that was not a dry run and found its markdown
C24_Processed ==
    /\ ScriptDone
    /\ script = "processArticle"
    /\ ~dryRun
    /\ fsInitial.markdown # <<>>

\* the download of the k-th external image succeeded: its file is complete
C24_Succeeded(k) ==
    [name |-> generateLocalFilename(externalImages[k].url, k - 1),
     complete |-> TRUE] \in fs.images

\* the local reference of the k-th external image
C24_Local(k) ==
    ImageSyntax(externalImages[k].altText,
                RelativePath(generateLocalFilename(externalImages[k].url,
                                                   k - 1)))

\* the markdown in which the references of the images downloaded are local
\* and every other character is as before; k external images precede
\* index from
RECURSIVE C24_ExpectedFrom(_, _, _)
C24_ExpectedFrom(text, from, k) ==
    LET starts == {i \in from..Len(text) : ImageMatchAt(text, i) # <<>>}
    IN  IF starts = {} THEN SubSeq(text, from, Len(text))
        ELSE LET i == CHOOSE j \in starts : \A l \in starts : j <= l
                 m == ImageMatchAt(text, i)
                 image == [fullMatch |-> SubSeq(text, i, m[1]),
                           altText |-> SubSeq(text, m[2], m[3]),
                           url |-> SubSeq(text, m[4], m[5])]
                 external == IsExternalImage(image)
                 next == IF external THEN k + 1 ELSE k
             IN  SubSeq(text, from, i - 1)
                 \o (IF external /\ C24_Succeeded(next) THEN C24_Local(next)
                     ELSE image.fullMatch)
                 \o C24_ExpectedFrom(text, m[1] + 1, next)

C24_OccurSomewhere ==
    C24_Processed =>
        \A k \in 1..Len(externalImages) :
            IF C24_Succeeded(k)
            THEN Includes(fs.markdown[1], C24_Local(k))
            ELSE Includes(fs.markdown[1], externalImages[k].fullMatch)

CliExited == cliPc = "exited"

\* one version was asked for, without --all
C22_OneVersion == ~cliOptions.all /\ cliOptions.version # "none"

\* C22: getArticle returns the configured article for a configured version
\* and throws for any other version; on the verify command line an unknown
\* version ends the process with exit code 1 before any article is
\* verified (no article is selected, verifyArticle is never called).
C22_UnknownVersion ==
    (CliExited /\ C22_OneVersion) =>
        IF Configured(cliOptions.version)
        THEN /\ cliArticles = <<cliOptions.version>>
             /\ Len(cliResults) = 1
        ELSE /\ cliArticles = <<>>
             /\ cliResults = <<>>
             /\ pagesOpened = <<>>
             /\ exitCode = 1

\* the part of C22 that holds: a version that is no key of ARTICLES ends
\* the process with exit code 1 and no web page is opened; a version that
\* is no property of ARTICLES at all makes getArticle throw
C22_UnknownVersionFails ==
    (CliExited /\ C22_OneVersion /\ ~Configured(cliOptions.version)) =>
        /\ exitCode = 1
        /\ pagesOpened = <<>>
        /\ cliOptions.version \notin ObjectPrototypeNames =>
               cliArticles = <<>> /\ cliResults = <<>>

\* the selected articles whose markdown file does not exist
C23_WithoutMarkdown ==
    {version \in Requested \cap DOMAIN ARTICLES :
        cliOutcomes[version] = "noMarkdown"}

\* C23: if the markdown file of an article does not exist, verifyArticle
\* returns false without the web page being opened or any content
\* extracted, and the command line then finishes with exit code 1.
C23_MissingMarkdown ==
    CliExited =>
        \A version \in C23_WithoutMarkdown :
            /\ \A i \in 1..Len(pagesOpened) : pagesOpened[i] # version
            /\ \E i \in 1..Len(cliResults) :
                   cliResults[i] = [article |-> version, success |-> FALSE]
            /\ exitCode = 1

\* C23 witness: all articles selected, the markdown of the first does not
\* exist, the other two verify: two pages opened, exit code 1.
C23_Witness ==
    /\ CliExited
    /\ cliOptions.all
    /\ C23_WithoutMarkdown = {"0.0.0"}
    /\ cliOutcomes["0.0.1"] = "success"
    /\ cliOutcomes["0.0.2"] = "success"
    /\ pagesOpened = <<"0.0.1", "0.0.2">>
    /\ exitCode = 1

RunnerExited == runnerPc = "exited"

\* the positions of one event of one child in childEvents
C21_At(name, event) ==
    {i \in 1..Len(childEvents) :
        childEvents[i].child = name /\ childEvents[i].event = event}

\* the child closed with exit code 0
C21_ClosedWithZero(name) ==
    \E i \in C21_At(name, "close") : childEvents[i].code = <<0>>

\* C21: the Puppeteer suite is started only after the process of the
\* Playwright suite has closed; once that process has closed, with whatever
\* exit code, the runner does not exit before it has started the Puppeteer
\* suite; and the runner exits with code 0 if and only if both children
\* closed with exit code 0, and with code 1 otherwise, a child that cannot
\* be spawned included.
C21_Sequential ==
    /\ \A i \in C21_At("Puppeteer", "spawn") :
           \E j \in C21_At("Playwright", "close") : j < i
    /\ (RunnerExited /\ C21_At("Playwright", "close") # {}) =>
           C21_At("Puppeteer", "spawn") # {}
    /\ RunnerExited =>
           runnerExitCode =
               IF C21_ClosedWithZero("Playwright")
                  /\ C21_ClosedWithZero("Puppeteer")
               THEN 0 ELSE 1
    /\ ~RunnerExited => runnerExitCode = NotExited

\* C21 witness: the Playwright suite failed, the Puppeteer suite was still
\* run and passed, and the runner exited with code 1.
C21_Witness ==
    /\ RunnerExited
    /\ childEvents =
           <<Spawned("Playwright"), ChildEvent("Playwright", "close", <<1>>),
             Spawned("Puppeteer"), ChildEvent("Puppeteer", "close", <<0>>)>>
    /\ runnerExitCode = 1

\* when the Playwright child cannot be spawned the runner leaves through
\* the catch block and the Puppeteer suite is not started
C21_PlaywrightNotSpawned ==
    (RunnerExited /\ C21_At("Playwright", "error") # {}) =>
        (C21_At("Puppeteer", "spawn") = {} /\ runnerExitCode = 1)

\* nothing is in flight and nothing is scheduled
DownloadQuiet == requests # <<>> /\ Sent = {} /\ Open = {} /\ timers = {}

\* C27: for a URL that keeps answering with a status that is neither 200
\* nor a redirect, or keeps failing with a connection error, downloadFile
\* issues at most `retries` requests in total, any two of them at least one
\* second apart, and then rejects with the error of the last attempt.
C27_BoundedRetries ==
    /\ Len(requests) <= retries
    /\ \A i, j \in 1..Len(requests) :
           i < j => requests[j].sentAt - requests[i].sentAt >= RetryDelay
    /\ DownloadQuiet =>
           /\ promise.state = "rejected"
           /\ promise.error = requests[Len(requests)].error

\* what does hold: the promise is rejected when request number `retries`
\* has failed, with the error of that request, and the requests issued up
\* to then are at least one second apart
C27_RejectsAfterRetries ==
    /\ promise.state = "rejected" =>
           /\ promise.after = retries
           /\ promise.error = requests[retries].error
           /\ \A i \in 1..(retries - 1) :
                  requests[i + 1].sentAt - requests[i].sentAt >= RetryDelay
    /\ DownloadQuiet => promise.state = "rejected"
    /\ promise.state = "pending" => Len(requests) <= retries

\* when every server closes its connection after the response, the count
\* and the spacing hold as well
C27_WithoutOpenSockets ==
    (\A i \in 1..Len(requests) :
        requests[i].state \notin {"open", "destroyed"}) =>
            /\ Len(requests) <= retries
            /\ \A i, j \in 1..Len(requests) :
                   i < j =>
                       requests[j].sentAt - requests[i].sentAt >= RetryDelay

=============================================================================
